---- MODULE Spec2Model ----
(***************************************************************************)
(* Model of raiden/raiden_event_handler.py: the event dispatcher           *)
(* RaidenEventHandler.on_raiden_event, its message and contract handlers,  *)
(* and the batch-unlock / settle reconciliation against the write-ahead    *)
(* log.  Every dispatch appends one record to `trace`: the event, the      *)
(* ordered external effects the handler produced (signatures, transport    *)
(* sends, chain-proxy calls, storage queries, log lines) and the exception *)
(* it raised, if any.                                                      *)
(***************************************************************************)
EXTENDS Integers, Sequences, FiniteSets, TLC

VARIABLES
    chain_state,   \* live channel states of the node (a set: empty = no channel)
    wal,           \* raiden.wal.storage: sequence of logged state changes / events
    wal_open,      \* addresses the restored channel state is built with
    chain,         \* what the token network contract and its client report
    statuses,      \* raiden.targets_to_identifiers_to_statuses: registered keys
    payment_done,  \* per key, the results its payment_done was set to
    route_to_feeback_token,  \* raiden.route_to_feeback_token: tokens per route
    unlocking,     \* the batch-unlock handler waiting in its first chain call
    effects_log,   \* every effect on a collaborator, in the order they happened
    constructed,   \* the secret-carrying events built so far, with their arguments
    trace          \* one record per dispatched event, in dispatch order

vars ==
    <<chain_state, wal, wal_open, constructed, chain, statuses, payment_done,
      route_to_feeback_token, unlocking, effects_log, trace>>

(***************************************************************************)
(* Bounds and small domains                                                *)
(***************************************************************************)
MaxLog == 3
MaxDispatch == 2

OurAddress == "A"
PartnerAddress == "B"
OtherAddress == "C"
Address == {OurAddress, PartnerAddress, OtherAddress}

LockIds == {1, 2}
\* the pending-lock sets a balance proof may commit to: lock 1 is locked
\* first, lock 2 on top of it
LockSets == {{}, {1}, {1, 2}}
Blocks == {"h1"}

EMPTY_HASH == 0

RECURSIVE SumAmounts(_)
\* token amount of a set of locks; lock l carries amount l
SumAmounts(S) ==
    IF S = {} THEN 0
    ELSE LET l == CHOOSE x \in S : TRUE IN l + SumAmounts(S \ {l})

RECURSIVE MerkleRoot(_)
\* locksroot committing to a set of pending locks; the empty set has the
\* empty root
MerkleRoot(S) ==
    IF S = {} THEN EMPTY_HASH
    ELSE LET l == CHOOSE x \in S : TRUE IN (2 ^ (l - 1)) + MerkleRoot(S \ {l})

Locksroots == {MerkleRoot(S) : S \in LockSets}

(***************************************************************************)
(* The write-ahead log.  Entry i has state_change_identifier i.            *)
(*   ReceiveBP : state change carrying a balance proof signed by `sender`  *)
(*   SendBP    : event carrying our balance proof, sent to `recipient`     *)
(*   Secret    : on-chain secret registration for lock `lock`              *)
(***************************************************************************)
\* raiden.transfer.utils.hash_balance_data: EMPTY for the all-zero balance,
\* otherwise a hash, taken to be free of collisions
hash_balance_data(transferred_amount, locked_amount, locksroot) ==
    IF transferred_amount = 0 /\ locked_amount = 0 /\ locksroot = EMPTY_HASH
    THEN EMPTY_HASH
    ELSE 1 + locksroot + (4 * locked_amount) + (16 * transferred_amount)

BalanceProof(locks, transferred) ==
    [locksroot |-> MerkleRoot(locks),
     transferred_amount |-> transferred,
     locked_amount |-> SumAmounts(locks),
     balance_hash |-> hash_balance_data(transferred, SumAmounts(locks),
                                        MerkleRoot(locks))]

ReceiveBP(locks, transferred) ==
    [kind |-> "ReceiveBP", sender |-> PartnerAddress, recipient |-> OurAddress,
     locks |-> locks, balance_proof |-> BalanceProof(locks, transferred)]

SendBP(locks, transferred) ==
    [kind |-> "SendBP", sender |-> OurAddress, recipient |-> PartnerAddress,
     locks |-> locks, balance_proof |-> BalanceProof(locks, transferred)]

SecretReg(l) ==
    [kind |-> "Secret", sender |-> OtherAddress, recipient |-> OtherAddress,
     locks |-> {l}, balance_proof |-> BalanceProof({}, 0)]

EndState(address, locks, root) ==
    [address |-> address, locks |-> locks, onchain_locksroot |-> root]

\* one replay step of the channel state machine: a balance proof replaces the
\* pending locks of the side that signed it, a secret registration is remembered
ApplyEntry(cs, e) ==
    IF e.kind = "ReceiveBP" THEN [cs EXCEPT !.partner_state.locks = e.locks]
    ELSE IF e.kind = "SendBP" THEN [cs EXCEPT !.our_state.locks = e.locks]
    ELSE [cs EXCEPT !.secrets = @ \cup e.locks]

RECURSIVE Replay(_, _, _)
\* the channel state after the first n entries of log, for a channel opened
\* between open.our and open.partner
Replay(log, open, n) ==
    IF n = 0 THEN
        [our_state |-> EndState(open.our, {}, EMPTY_HASH),
         partner_state |-> EndState(open.partner, {}, EMPTY_HASH),
         secrets |-> {}]
    ELSE ApplyEntry(Replay(log, open, n - 1), log[n])

\* raiden.storage.restore.channel_state_until_state_change
channel_state_until_state_change(state_change_identifier) ==
    Replay(wal, wal_open, state_change_identifier)

\* most recent log position whose entry is in Matching; 0 stands for None
LatestMatch(Matching) ==
    IF Matching = {} THEN 0
    ELSE CHOOSE i \in Matching : \A j \in Matching : j <= i

get_state_change_with_balance_proof_by_locksroot(locksroot, sender) ==
    LatestMatch({i \in 1..Len(wal) :
                    /\ wal[i].kind = "ReceiveBP"
                    /\ wal[i].balance_proof.locksroot = locksroot
                    /\ wal[i].sender = sender})

get_event_with_balance_proof_by_locksroot(locksroot, recipient) ==
    LatestMatch({i \in 1..Len(wal) :
                    /\ wal[i].kind = "SendBP"
                    /\ wal[i].balance_proof.locksroot = locksroot
                    /\ wal[i].recipient = recipient})

get_event_with_balance_proof_by_balance_hash(balance_hash) ==
    LatestMatch({i \in 1..Len(wal) :
                    /\ wal[i].kind = "SendBP"
                    /\ wal[i].balance_proof.balance_hash = balance_hash})

get_state_change_with_balance_proof_by_balance_hash(balance_hash, sender) ==
    LatestMatch({i \in 1..Len(wal) :
                    /\ wal[i].kind = "ReceiveBP"
                    /\ wal[i].balance_proof.balance_hash = balance_hash
                    /\ wal[i].sender = sender})

\* raiden.transfer.channel.get_batch_unlock: the pending locks of an end state
get_batch_unlock(end_state) == end_state.locks

\* raiden.transfer.channel.get_batch_unlock_gain: the partner's locks pay us
\* when their secret is registered, our own locks return to us when it is not
get_batch_unlock_gain(channel_state) ==
    [from_partner_locks |->
         SumAmounts(channel_state.partner_state.locks \cap channel_state.secrets),
     from_our_locks |->
         SumAmounts(channel_state.our_state.locks \ channel_state.secrets)]

\* raiden.transfer.views.get_channelstate_by_token_network_and_partner
get_channelstate_by_token_network_and_partner(partner_address) ==
    {cs \in chain_state : cs.partner_state.address = partner_address}

(***************************************************************************)
(* Handler results: the ordered external effects and the exception raised  *)
(***************************************************************************)
NoException == "none"
Returned(effects) == [effects |-> effects, raised |-> NoException]
Raised(effects, exception) == [effects |-> effects, raised |-> exception]

\* run `second` after `first` unless `first` raised
AndThen(first, second) ==
    IF first.raised # NoException THEN first
    ELSE [effects |-> first.effects \o second.effects, raised |-> second.raised]

LogEffect(level, message) == [op |-> "log", level |-> level, message |-> message]
QueryEffect(query, key, party) ==
    [op |-> "query", query |-> query, key |-> key, party |-> party]
RestoreEffect(state_change_identifier) ==
    [op |-> "restore", state_change_identifier |-> state_change_identifier]
UnlockCall(sender, receiver, merkle_tree_locks, block) ==
    [op |-> "unlock", sender |-> sender, receiver |-> receiver,
     merkle_tree_locks |-> merkle_tree_locks, given_block_identifier |-> block]

\* variant: the assertion is stripped and the call is made with whatever
\* get_batch_unlock returned
unlock_unasserted(end_state, sender, receiver, given_block_identifier) ==
    Returned(<<UnlockCall(sender, receiver, get_batch_unlock(end_state),
                          given_block_identifier)>>)

\* unlock(payment_channel, end_state, sender, receiver, given_block_identifier)
unlock(end_state, sender, receiver, given_block_identifier) ==
    LET merkle_tree_locks == get_batch_unlock(end_state)
    IN IF merkle_tree_locks = {}
       THEN Raised(<<>>, "AssertionError")
       ELSE Returned(<<UnlockCall(sender, receiver, merkle_tree_locks,
                                  given_block_identifier)>>)

\* variant: the address comparison is dropped from the partner-side skip
skip_unlock_partner_gain_only(restored_channel_state, participant, gain) ==
    gain.from_partner_locks = 0

\* skip_unlock of the partner side (lines 398-401)
skip_unlock_partner(restored_channel_state, participant, gain) ==
    /\ restored_channel_state.partner_state.address = participant
    /\ gain.from_partner_locks = 0

\* skip_unlock of our side (lines 440-443)
skip_unlock_our(restored_channel_state, participant, gain) ==
    /\ restored_channel_state.our_state.address = participant
    /\ gain.from_our_locks = 0

\* variant: sender and receiver of the partner-side call are exchanged
unlock_call_partner_swapped(channel_state, restored_channel_state, ev) ==
    unlock(restored_channel_state.partner_state,
           channel_state.our_state.address,
           channel_state.partner_state.address,
           ev.triggered_by_block_hash)

\* variant: the partner-side call is given the live end state
unlock_call_partner_live(channel_state, restored_channel_state, ev) ==
    unlock(channel_state.partner_state,
           channel_state.partner_state.address,
           channel_state.our_state.address,
           ev.triggered_by_block_hash)

\* the unlock(...) call of the partner side (lines 403-409)
unlock_call_partner(channel_state, restored_channel_state, ev) ==
    unlock(restored_channel_state.partner_state,
           channel_state.partner_state.address,
           channel_state.our_state.address,
           ev.triggered_by_block_hash)

\* variant: the our-side call is given the partner's end state of the snapshot
unlock_call_our_partner_locks(channel_state, restored_channel_state, ev) ==
    unlock(restored_channel_state.partner_state,
           channel_state.our_state.address,
           channel_state.partner_state.address,
           ev.triggered_by_block_hash)

\* the unlock(...) call of our side (lines 445-451)
unlock_call_our(channel_state, restored_channel_state, ev) ==
    unlock(restored_channel_state.our_state,
           channel_state.our_state.address,
           channel_state.partner_state.address,
           ev.triggered_by_block_hash)

\* the `if search_state_changes:` block of handle_contract_send_channelunlock
unlock_partner_side(channel_state, ev) ==
    LET participant == ev.sender
        partner_address == channel_state.partner_state.address
        partner_locksroot == channel_state.partner_state.onchain_locksroot
        state_change_record ==
            get_state_change_with_balance_proof_by_locksroot(partner_locksroot,
                                                             partner_address)
        query == QueryEffect("state_change_by_locksroot", partner_locksroot,
                             partner_address)
    IN IF state_change_record = 0
       THEN Raised(<<query>>, "RaidenUnrecoverableError")
       ELSE LET restored_channel_state ==
                    channel_state_until_state_change(state_change_record)
                gain == get_batch_unlock_gain(restored_channel_state)
                before == <<query, RestoreEffect(state_change_record)>>
            IN IF skip_unlock_partner(restored_channel_state, participant, gain)
               THEN Returned(before)
               ELSE AndThen(Returned(before),
                            unlock_call_partner(channel_state,
                                                restored_channel_state, ev))

\* variant: without a record the live end state is unlocked instead
unlock_our_side_guessing(channel_state, ev) ==
    LET partner_address == channel_state.partner_state.address
        our_locksroot == channel_state.our_state.onchain_locksroot
        event_record ==
            get_event_with_balance_proof_by_locksroot(our_locksroot,
                                                      partner_address)
        query == QueryEffect("event_by_locksroot", our_locksroot, partner_address)
    IN AndThen(Returned(<<query>>),
               unlock_call_our(channel_state,
                               IF event_record = 0
                               THEN channel_state
                               ELSE channel_state_until_state_change(event_record),
                               ev))

\* the `if search_events:` block of handle_contract_send_channelunlock
unlock_our_side(channel_state, ev) ==
    LET participant == ev.sender
        partner_address == channel_state.partner_state.address
        our_locksroot == channel_state.our_state.onchain_locksroot
        event_record ==
            get_event_with_balance_proof_by_locksroot(our_locksroot,
                                                      partner_address)
        query == QueryEffect("event_by_locksroot", our_locksroot, partner_address)
    IN IF event_record = 0
       THEN Raised(<<query>>, "RaidenUnrecoverableError")
       ELSE LET restored_channel_state ==
                    channel_state_until_state_change(event_record)
                gain == get_batch_unlock_gain(restored_channel_state)
                before == <<query, RestoreEffect(event_record)>>
            IN IF skip_unlock_our(restored_channel_state, participant, gain)
               THEN Returned(before)
               ELSE AndThen(Returned(before),
                            unlock_call_our(channel_state,
                                            restored_channel_state, ev))

\* variant: a `not` is lost in the early-return condition
unlock_already_mined_lost_not(search_events, search_state_changes) ==
    ~search_events /\ search_state_changes

\* `not search_events and not search_state_changes` (line 357)
unlock_already_mined(search_events, search_state_changes) ==
    ~search_events /\ ~search_state_changes

\* variant: the two blocks run in the other order
handle_contract_send_channelunlock_our_side_first(ev) ==
    LET participant == ev.sender
        found == get_channelstate_by_token_network_and_partner(participant)
    IN IF found = {}
       THEN Raised(<<>>, "RaidenUnrecoverableError")
       ELSE LET channel_state == CHOOSE cs \in found : TRUE
                our_locksroot == channel_state.our_state.onchain_locksroot
                partner_locksroot == channel_state.partner_state.onchain_locksroot
                search_events == our_locksroot # EMPTY_HASH
                search_state_changes == partner_locksroot # EMPTY_HASH
            IN IF unlock_already_mined(search_events, search_state_changes)
               THEN Returned(<<LogEffect("warning", "Onchain unlock already mined")>>)
               ELSE AndThen(
                        IF search_events
                        THEN unlock_our_side(channel_state, ev)
                        ELSE Returned(<<>>),
                        IF search_state_changes
                        THEN unlock_partner_side(channel_state, ev)
                        ELSE Returned(<<>>))

\* RaidenEventHandler.handle_contract_send_channelunlock
handle_contract_send_channelunlock(ev) ==
    LET participant == ev.sender
        found == get_channelstate_by_token_network_and_partner(participant)
    IN IF found = {}
       THEN Raised(<<>>, "RaidenUnrecoverableError")
       ELSE LET channel_state == CHOOSE cs \in found : TRUE
                our_locksroot == channel_state.our_state.onchain_locksroot
                partner_locksroot == channel_state.partner_state.onchain_locksroot
                search_events == our_locksroot # EMPTY_HASH
                search_state_changes == partner_locksroot # EMPTY_HASH
            IN IF unlock_already_mined(search_events, search_state_changes)
               THEN Returned(<<LogEffect("warning", "Onchain unlock already mined")>>)
               ELSE AndThen(
                        IF search_state_changes
                        THEN unlock_partner_side(channel_state, ev)
                        ELSE Returned(<<>>),
                        IF search_events
                        THEN unlock_our_side(channel_state, ev)
                        ELSE Returned(<<>>))

(***************************************************************************)
(* Settle                                                                  *)
(***************************************************************************)
LatestBlock == "latest"

\* client.blockhash_from_blocknumber: the hash of the block with that number,
\* for "latest" the hash of the newest block the node has
blockhash_from_blocknumber(block_number) ==
    IF block_number = LatestBlock THEN "h-latest" ELSE block_number

Amounts(transferred_amount, locked_amount, locksroot) ==
    [transferred_amount |-> transferred_amount, locked_amount |-> locked_amount,
     locksroot |-> locksroot]

\* the amounts of a balance proof read from a history record
AmountsOf(balance_proof) ==
    Amounts(balance_proof.transferred_amount, balance_proof.locked_amount,
            balance_proof.locksroot)

\* the amounts used for a side that never submitted a balance proof
DefaultAmounts == Amounts(0, 0, EMPTY_HASH)

SettleCall(ours, partners, block) ==
    [op |-> "settle",
     transferred_amount |-> ours.transferred_amount,
     locked_amount |-> ours.locked_amount,
     locksroot |-> ours.locksroot,
     partner_transferred_amount |-> partners.transferred_amount,
     partner_locked_amount |-> partners.locked_amount,
     partner_locksroot |-> partners.locksroot,
     block_identifier |-> block]

ClientEffect(op, block) == [op |-> op, block_identifier |-> block]

\* variant: the two sides' amounts are exchanged in the settle call
settle_call_swapped(ours, partners, block) ==
    Returned(<<SettleCall(partners, ours, block)>>)

\* payment_channel.settle(...) (lines 556-564)
settle_call(ours, partners, block) ==
    Returned(<<SettleCall(ours, partners, block)>>)

\* variant: the history is consulted whatever the on-chain balance hash is
has_balance_proof_always(details) == TRUE

\* `<side>_details.balance_hash != EMPTY_HASH` (lines 512, 534)
has_balance_proof(details) == details.balance_hash # EMPTY_HASH

\* variant: the amounts are read from our latest balance proof, as the live
\* channel state holds it
our_balance_proof_live(event_record) ==
    wal[LatestMatch({n \in 1..Len(wal) : wal[n].kind = "SendBP"})].balance_proof

\* `event_record.data.balance_proof` (line 525)
our_balance_proof(event_record) == wal[event_record].balance_proof

\* `state_change_record.data.balance_proof` (line 547)
partner_balance_proof(state_change_record) ==
    wal[state_change_record].balance_proof

\* our side of handle_contract_send_channelsettle (lines 512-532); the
\* result carries the amounts to settle with
settle_our_amounts(our_details) ==
    IF has_balance_proof(our_details)
    THEN LET event_record ==
                 get_event_with_balance_proof_by_balance_hash(
                     our_details.balance_hash)
             query == QueryEffect("event_by_balance_hash",
                                  our_details.balance_hash, "any")
         IN IF event_record = 0
            THEN [result |-> Raised(<<query, LogEffect("critical",
                                         "our balance proof not found")>>,
                                    "RaidenUnrecoverableError"),
                  amounts |-> DefaultAmounts]
            ELSE [result |-> Returned(<<query>>),
                  amounts |-> AmountsOf(our_balance_proof(event_record))]
    ELSE [result |-> Returned(<<>>), amounts |-> DefaultAmounts]

\* variant: a missing partner record is settled with the defaults
settle_partner_amounts_defaulting(partner_details) ==
    IF has_balance_proof(partner_details)
    THEN LET state_change_record ==
                 get_state_change_with_balance_proof_by_balance_hash(
                     partner_details.balance_hash, partner_details.address)
             query == QueryEffect("state_change_by_balance_hash",
                                  partner_details.balance_hash,
                                  partner_details.address)
         IN IF state_change_record = 0
            THEN [result |-> Returned(<<query>>), amounts |-> DefaultAmounts]
            ELSE [result |-> Returned(<<query>>),
                  amounts |-> AmountsOf(partner_balance_proof(state_change_record))]
    ELSE [result |-> Returned(<<>>), amounts |-> DefaultAmounts]

\* the partner side of handle_contract_send_channelsettle (lines 534-554)
settle_partner_amounts(partner_details) ==
    IF has_balance_proof(partner_details)
    THEN LET state_change_record ==
                 get_state_change_with_balance_proof_by_balance_hash(
                     partner_details.balance_hash, partner_details.address)
             query == QueryEffect("state_change_by_balance_hash",
                                  partner_details.balance_hash,
                                  partner_details.address)
         IN IF state_change_record = 0
            THEN [result |-> Raised(<<query, LogEffect("critical",
                                         "partner balance proof not found")>>,
                                    "RaidenUnrecoverableError"),
                  amounts |-> DefaultAmounts]
            ELSE [result |-> Returned(<<query>>),
                  amounts |-> AmountsOf(partner_balance_proof(state_change_record))]
    ELSE [result |-> Returned(<<>>), amounts |-> DefaultAmounts]

\* variant: the trigger block is used although it cannot be queried
settle_block_identifier_pruned(ev, can_query) == ev.triggered_by_block_hash

\* the block the channel is queried and settled at (lines 464-478)
settle_block_identifier(ev, can_query) ==
    IF can_query
    THEN ev.triggered_by_block_hash
    ELSE blockhash_from_blocknumber(LatestBlock)

\* RaidenEventHandler.handle_contract_send_channelsettle
handle_contract_send_channelsettle(ev) ==
    LET can_query == chain.can_query_state_for_block
        triggered_by_block_hash == settle_block_identifier(ev, can_query)
        client ==
            <<ClientEffect("can_query_state_for_block", ev.triggered_by_block_hash)>>
            \o (IF can_query THEN <<>>
                ELSE <<ClientEffect("blockhash_from_blocknumber", LatestBlock)>>)
            \o <<ClientEffect("detail_participants", triggered_by_block_hash)>>
        ours == settle_our_amounts(chain.our_details)
        partners == settle_partner_amounts(chain.partner_details)
    IN AndThen(Returned(client),
       AndThen(ours.result,
       AndThen(partners.result,
               settle_call(ours.amounts, partners.amounts,
                           triggered_by_block_hash))))

(***************************************************************************)
(* Message handlers                                                        *)
(***************************************************************************)
Signature(signer, data) == [signer |-> signer, data |-> data]
EMPTY_SIGNATURE == Signature("nobody", <<>>)

MessageEventTypes ==
    {"SendLockExpired", "SendLockedTransfer", "SendSecretReveal",
     "SendBalanceProof", "SendSecretRequest", "SendRefundTransfer",
     "SendProcessed"}

\* the wire message of each message event
MessageTypeOf(type) ==
    CASE type = "SendLockExpired" -> "LockExpired"
      [] type = "SendLockedTransfer" -> "LockedTransfer"
      [] type = "SendSecretReveal" -> "RevealSecret"
      [] type = "SendBalanceProof" -> "Unlock"
      [] type = "SendSecretRequest" -> "SecretRequest"
      [] type = "SendRefundTransfer" -> "RefundTransfer"
      [] type = "SendProcessed" -> "Processed"

\* raiden.messages.message_from_sendevent: the unsigned wire message
message_from_sendevent(ev) ==
    [cmd |-> MessageTypeOf(ev.type),
     message_identifier |-> ev.message_identifier,
     signature |-> EMPTY_SIGNATURE]

\* the message after raiden.sign(message) signed it in place
Signed(message) ==
    [message EXCEPT !.signature =
        Signature(OurAddress, <<message.cmd, message.message_identifier>>)]

SignEffect(message) == [op |-> "sign", message |-> message]
SendAsyncEffect(queue_identifier, message) ==
    [op |-> "send_async", queue_identifier |-> queue_identifier,
     message |-> message]

\* variant: the message is handed to the transport without being signed
handle_send_processed_unsigned(ev) ==
    LET processed_message == message_from_sendevent(ev)
    IN Returned(<<SendAsyncEffect(ev.queue_identifier, processed_message)>>)

handle_send_lockexpired(ev) ==
    LET lock_expired_message == message_from_sendevent(ev)
    IN Returned(<<SignEffect(lock_expired_message),
                  SendAsyncEffect(ev.queue_identifier,
                                  Signed(lock_expired_message))>>)

handle_send_lockedtransfer(ev) ==
    LET mediated_transfer_message == message_from_sendevent(ev)
    IN Returned(<<SignEffect(mediated_transfer_message),
                  SendAsyncEffect(ev.queue_identifier,
                                  Signed(mediated_transfer_message))>>)

handle_send_secretreveal(ev) ==
    LET reveal_secret_message == message_from_sendevent(ev)
    IN Returned(<<SignEffect(reveal_secret_message),
                  SendAsyncEffect(ev.queue_identifier,
                                  Signed(reveal_secret_message))>>)

handle_send_balanceproof(ev) ==
    LET unlock_message == message_from_sendevent(ev)
    IN Returned(<<SignEffect(unlock_message),
                  SendAsyncEffect(ev.queue_identifier, Signed(unlock_message))>>)

\* variant: the resolver's answer is ignored and the request is sent anyway
handle_send_secretrequest_always_sends(ev, resolver_reveals) ==
    LET secret_request_message == message_from_sendevent(ev)
    IN Returned(<<[op |-> "reveal_secret_with_resolver",
                   revealed |-> resolver_reveals],
                  SignEffect(secret_request_message),
                  SendAsyncEffect(ev.queue_identifier,
                                  Signed(secret_request_message))>>)

\* resolver_reveals is what reveal_secret_with_resolver(raiden, event) returns
handle_send_secretrequest(ev, resolver_reveals) ==
    LET secret_request_message == message_from_sendevent(ev)
        asked == <<[op |-> "reveal_secret_with_resolver",
                    revealed |-> resolver_reveals]>>
    IN IF resolver_reveals
       THEN Returned(asked)
       ELSE Returned(asked \o
                     <<SignEffect(secret_request_message),
                       SendAsyncEffect(ev.queue_identifier,
                                       Signed(secret_request_message))>>)

handle_send_refundtransfer(ev) ==
    LET refund_transfer_message == message_from_sendevent(ev)
    IN Returned(<<SignEffect(refund_transfer_message),
                  SendAsyncEffect(ev.queue_identifier,
                                  Signed(refund_transfer_message))>>)

handle_send_processed(ev) ==
    LET processed_message == message_from_sendevent(ev)
    IN Returned(<<SignEffect(processed_message),
                  SendAsyncEffect(ev.queue_identifier,
                                  Signed(processed_message))>>)

(***************************************************************************)
(* Payment status and plain handlers                                       *)
(***************************************************************************)
PopEffect(key) == [op |-> "pop", key |-> key]
PaymentDoneEffect(key, result) ==
    [op |-> "payment_done.set", key |-> key, result |-> result]

\* dict.pop without a default raises KeyError for an absent key
handle_paymentsentsuccess(ev) ==
    LET key == <<ev.target, ev.identifier>>
    IN IF key \notin statuses
       THEN Raised(<<>>, "KeyError")
       ELSE Returned(<<PopEffect(key), PaymentDoneEffect(key, ev.type)>>)

\* variant: the result is set whether or not an entry was popped
handle_paymentsentfailed_always_sets(ev) ==
    LET key == <<ev.target, ev.identifier>>
    IN Returned(<<PopEffect(key), PaymentDoneEffect(key, ev.type)>>)

\* dict.pop with the default None; the result is set on a popped entry only

handle_paymentsentfailed(ev) ==
    LET key == <<ev.target, ev.identifier>>
    IN IF key \in statuses
       THEN Returned(<<PopEffect(key), PaymentDoneEffect(key, ev.type)>>)
       ELSE Returned(<<>>)

handle_unlockfailed(ev) == Returned(<<LogEffect("error", "UnlockFailed!")>>)

(***************************************************************************)
(* Contract handlers: secret reveal, close, update                         *)
(***************************************************************************)
EMPTY_BALANCE_HASH == 0
EMPTY_MESSAGE_HASH == 0

handle_contract_send_secretreveal(ev) ==
    Returned(<<[op |-> "register_secret", secret |-> ev.secret]>>)

CloseCall(nonce, balance_hash, additional_hash, signature, block) ==
    [op |-> "close", nonce |-> nonce, balance_hash |-> balance_hash,
     additional_hash |-> additional_hash, signature |-> signature,
     block_identifier |-> block]

\* variant: the balance proof of the event is ignored
handle_contract_send_channelclose_sentinels(ev) ==
    Returned(<<CloseCall(0, EMPTY_BALANCE_HASH, EMPTY_MESSAGE_HASH,
                         EMPTY_SIGNATURE, ev.triggered_by_block_hash)>>)

\* ev.balance_proof is a set: empty for None, else the one balance proof
handle_contract_send_channelclose(ev) ==
    IF ev.balance_proof # {}
    THEN LET balance_proof == CHOOSE bp \in ev.balance_proof : TRUE
         IN Returned(<<CloseCall(balance_proof.nonce, balance_proof.balance_hash,
                                 balance_proof.message_hash,
                                 balance_proof.signature,
                                 ev.triggered_by_block_hash)>>)
    ELSE Returned(<<CloseCall(0, EMPTY_BALANCE_HASH, EMPTY_MESSAGE_HASH,
                              EMPTY_SIGNATURE, ev.triggered_by_block_hash)>>)

\* raiden.transfer.balance_proof.pack_balance_proof_update
pack_balance_proof_update(nonce, balance_hash, additional_hash, canonical_identifier, partner_signature) ==
    <<nonce, balance_hash, additional_hash, canonical_identifier,
      partner_signature>>

\* variant: our signature is submitted in the place of the partner's
handle_contract_send_channelupdate_own_signature(ev) ==
    IF ev.balance_proof # {}
    THEN LET balance_proof == CHOOSE bp \in ev.balance_proof : TRUE
             non_closing_data ==
                 pack_balance_proof_update(balance_proof.nonce,
                                           balance_proof.balance_hash,
                                           balance_proof.message_hash,
                                           balance_proof.canonical_identifier,
                                           balance_proof.signature)
             our_signature == Signature(OurAddress, non_closing_data)
         IN Returned(<<[op |-> "signer.sign", data |-> non_closing_data],
                       [op |-> "update_transfer",
                        nonce |-> balance_proof.nonce,
                        balance_hash |-> balance_proof.balance_hash,
                        additional_hash |-> balance_proof.message_hash,
                        partner_signature |-> our_signature,
                        signature |-> our_signature,
                        block_identifier |-> ev.triggered_by_block_hash]>>)
    ELSE Returned(<<>>)

handle_contract_send_channelupdate(ev) ==
    IF ev.balance_proof # {}
    THEN LET balance_proof == CHOOSE bp \in ev.balance_proof : TRUE
             non_closing_data ==
                 pack_balance_proof_update(balance_proof.nonce,
                                           balance_proof.balance_hash,
                                           balance_proof.message_hash,
                                           balance_proof.canonical_identifier,
                                           balance_proof.signature)
             our_signature == Signature(OurAddress, non_closing_data)
         IN Returned(<<[op |-> "signer.sign", data |-> non_closing_data],
                       [op |-> "update_transfer",
                        nonce |-> balance_proof.nonce,
                        balance_hash |-> balance_proof.balance_hash,
                        additional_hash |-> balance_proof.message_hash,
                        partner_signature |-> balance_proof.signature,
                        signature |-> our_signature,
                        block_identifier |-> ev.triggered_by_block_hash]>>)
    ELSE Returned(<<>>)

(***************************************************************************)
(* Events                                                                  *)
(***************************************************************************)
ContractSendChannelSettle(block) ==
    [type |-> "ContractSendChannelSettle", triggered_by_block_hash |-> block]

SettleEvents == {ContractSendChannelSettle(b) : b \in Blocks}

ContractSendChannelBatchUnlock(sender, block) ==
    [type |-> "ContractSendChannelBatchUnlock", sender |-> sender,
     triggered_by_block_hash |-> block]

BatchUnlockEvents ==
    {ContractSendChannelBatchUnlock(p, b) : p \in {PartnerAddress, OtherAddress},
                                            b \in Blocks}

QueueIdentifiers ==
    {[recipient |-> PartnerAddress, channel_identifier |-> 1],
     [recipient |-> OtherAddress, channel_identifier |-> 0]}

MessageEvents ==
    {[type |-> t, queue_identifier |-> q, message_identifier |-> 1] :
        t \in MessageEventTypes, q \in QueueIdentifiers}

PaymentKeys == {<<OtherAddress, 1>>, <<OtherAddress, 2>>}

\* the routes payments were tried over
Routes == {"route-1", "route-2"}

PaymentEvents ==
    {[type |-> "EventPaymentSentSuccess", target |-> key[1],
      identifier |-> key[2], route |-> route] :
        key \in PaymentKeys, route \in Routes}
    \cup {[type |-> "EventPaymentSentFailed", target |-> key[1],
           identifier |-> key[2]] : key \in PaymentKeys}

RouteFailedEvents ==
    {[type |-> "EventRouteFailed", route |-> route] : route \in Routes}

\* a balance proof received from the partner, as close and update submit it
PartnerBalanceProof ==
    [nonce |-> 5, balance_hash |-> 7, message_hash |-> 9,
     signature |-> Signature(PartnerAddress, <<5, 7, 9>>),
     canonical_identifier |-> "channel-1"]

CloseUpdateEvents ==
    {[type |-> t, balance_proof |-> bp, triggered_by_block_hash |-> b] :
        t \in {"ContractSendChannelClose", "ContractSendChannelUpdateTransfer"},
        bp \in {{}, {PartnerBalanceProof}}, b \in Blocks}

SecretRevealEvents == {[type |-> "ContractSendSecretReveal", secret |-> 1]}

UNEVENTFUL_EVENTS ==
    {"EventPaymentReceivedSuccess", "EventUnlockSuccess",
     "EventUnlockClaimFailed", "EventUnlockClaimSuccess",
     "EventInvalidReceivedLockedTransfer", "EventInvalidReceivedLockExpired",
     "EventInvalidReceivedTransferRefund", "EventInvalidReceivedUnlock"}

\* the outcome markers the state machine emits
OutcomeEventTypes ==
    UNEVENTFUL_EVENTS \cup
        {"EventUnlockFailed", "EventRouteFailed", "EventUnexpectedSecretReveal"}

OutcomeEvents ==
    {[type |-> t] : t \in OutcomeEventTypes \ {"EventRouteFailed"}}
        \cup RouteFailedEvents

\* every event the state machine can hand to the dispatcher
Events ==
    MessageEvents \cup PaymentEvents \cup OutcomeEvents \cup SecretRevealEvents
        \cup CloseUpdateEvents \cup BatchUnlockEvents \cup SettleEvents

(***************************************************************************)
(* The dispatcher                                                          *)
(***************************************************************************)
Handled(handler, result) ==
    [branch |-> "handler", handlers |-> <<handler>>,
     effects |-> result.effects, raised |-> result.raised]

\* variant: an event without a branch is an error of the caller
unknown_event_fatal(ev) ==
    [branch |-> "unknown", handlers |-> <<>>,
     effects |-> <<LogEffect("error", "Unknown event")>>,
     raised |-> "TypeError"]

\* the final else of on_raiden_event (lines 149-150)
unknown_event(ev) ==
    [branch |-> "unknown", handlers |-> <<>>,
     effects |-> <<LogEffect("error", "Unknown event")>>,
     raised |-> NoException]

\* RaidenEventHandler.on_raiden_event: the first matching branch runs
on_raiden_event(ev, resolver_reveals) ==
    IF ev.type = "SendLockExpired"
    THEN Handled("handle_send_lockexpired", handle_send_lockexpired(ev))
    ELSE IF ev.type = "SendLockedTransfer"
    THEN Handled("handle_send_lockedtransfer", handle_send_lockedtransfer(ev))
    ELSE IF ev.type = "SendSecretReveal"
    THEN Handled("handle_send_secretreveal", handle_send_secretreveal(ev))
    ELSE IF ev.type = "SendBalanceProof"
    THEN Handled("handle_send_balanceproof", handle_send_balanceproof(ev))
    ELSE IF ev.type = "SendSecretRequest"
    THEN Handled("handle_send_secretrequest",
                 handle_send_secretrequest(ev, resolver_reveals))
    ELSE IF ev.type = "SendRefundTransfer"
    THEN Handled("handle_send_refundtransfer", handle_send_refundtransfer(ev))
    ELSE IF ev.type = "SendProcessed"
    THEN Handled("handle_send_processed", handle_send_processed(ev))
    ELSE IF ev.type = "EventPaymentSentSuccess"
    THEN Handled("handle_paymentsentsuccess", handle_paymentsentsuccess(ev))
    ELSE IF ev.type = "EventPaymentSentFailed"
    THEN Handled("handle_paymentsentfailed", handle_paymentsentfailed(ev))
    ELSE IF ev.type = "EventUnlockFailed"
    THEN Handled("handle_unlockfailed", handle_unlockfailed(ev))
    ELSE IF ev.type = "ContractSendSecretReveal"
    THEN Handled("handle_contract_send_secretreveal",
                 handle_contract_send_secretreveal(ev))
    ELSE IF ev.type = "ContractSendChannelClose"
    THEN Handled("handle_contract_send_channelclose",
                 handle_contract_send_channelclose(ev))
    ELSE IF ev.type = "ContractSendChannelUpdateTransfer"
    THEN Handled("handle_contract_send_channelupdate",
                 handle_contract_send_channelupdate(ev))
    ELSE IF ev.type = "ContractSendChannelBatchUnlock"
    THEN Handled("handle_contract_send_channelunlock",
                 handle_contract_send_channelunlock(ev))
    ELSE IF ev.type = "ContractSendChannelSettle"
    THEN Handled("handle_contract_send_channelsettle",
                 handle_contract_send_channelsettle(ev))
    ELSE IF ev.type \in UNEVENTFUL_EVENTS
    THEN [branch |-> "uneventful", handlers |-> <<>>, effects |-> <<>>,
          raised |-> NoException]
    ELSE unknown_event(ev)

\* an exception propagates to the caller of the dispatcher and stops the
\* node: nothing is dispatched after it
Halted == \E i \in 1..Len(trace) : trace[i].raised # NoException

\* the keys a handler popped from the registry
Popped(effects) ==
    {effects[k].key : k \in {n \in 1..Len(effects) : effects[n].op = "pop"}}

RECURSIVE ResultsSet(_, _)
\* the results a handler set on the payment_done of `key`, in order
ResultsSet(effects, key) ==
    IF effects = <<>> THEN <<>>
    ELSE LET rest == ResultsSet(Tail(effects), key)
             first == Head(effects)
         IN IF first.op = "payment_done.set" /\ first.key = key
            THEN <<first.result>> \o rest
            ELSE rest

\* variant: the calls are left to a task that runs ahead of what is logged
carried_out_ahead(log, intent, effects) ==
    [k \in 1..Len(effects) |-> [intent |-> intent, effect |-> effects[k]]] \o log

\* the handlers call their collaborators themselves, one call after the other
\* (lines 152-564): the effects of the handler of the intent-th event follow
\* everything that happened before
carried_out(log, intent, effects) ==
    log \o [k \in 1..Len(effects) |-> [intent |-> intent, effect |-> effects[k]]]

\* what one call of a dispatcher with the given result leaves behind
Dispatched(ev, resolver_reveals, result) ==
    /\ Len(trace) < MaxDispatch
    /\ ~Halted
    /\ unlocking = {}
    /\ trace' = Append(trace, [event |-> ev, live |-> chain_state,
                               live_resumed |-> chain_state,
                               registered |-> statuses,
                               resolver_reveals |-> resolver_reveals,
                               branch |-> result.branch,
                               handlers |-> result.handlers,
                               effects |-> result.effects,
                               raised |-> result.raised])
    /\ statuses' = statuses \ Popped(result.effects)
    /\ payment_done' =
          [key \in PaymentKeys |->
              payment_done[key] \o ResultsSet(result.effects, key)]
    /\ effects_log' = carried_out(effects_log, Len(trace) + 1, result.effects)
    /\ UNCHANGED <<chain_state, wal, wal_open, constructed, chain,
                   route_to_feeback_token, unlocking>>

\* one call of RaidenEventHandler.on_raiden_event(raiden, chain_state, event)
Dispatch(ev, resolver_reveals) ==
    Dispatched(ev, resolver_reveals, on_raiden_event(ev, resolver_reveals))

(***************************************************************************)
(* The feedback decorator                                                  *)
(***************************************************************************)
\* raiden.network.pathfinding.post_pfs_feedback: the request is made and a
\* failure to deliver it is logged there, not raised
post_pfs_feedback(route, token, succesful, delivered) ==
    Returned(<<[op |-> "post_pfs_feedback", route |-> route, token |-> token,
                succesful |-> succesful, delivered |-> delivered]>>
             \o (IF delivered THEN <<>>
                 ELSE <<LogEffect("warning", "Could not send feedback to PFS")>>))

PFSFeedbackEventHandler_handle_routefailed(ev, delivered) ==
    LET feedback_token == route_to_feeback_token[ev.route]
    IN IF feedback_token # {}
       THEN AndThen(Returned(<<LogEffect("debug",
                                         "Received event for failed route")>>),
                    post_pfs_feedback(ev.route,
                                      CHOOSE token \in feedback_token : TRUE,
                                      FALSE, delivered))
       ELSE Returned(<<>>)

\* variant: a post that was not delivered is an error of the handler
PFSFeedbackEventHandler_handle_paymentsentsuccess_checked(ev, delivered) ==
    LET feedback_token == route_to_feeback_token[ev.route]
    IN IF feedback_token # {}
       THEN AndThen(Returned(<<LogEffect("debug",
                                         "Received payment success event")>>),
            AndThen(post_pfs_feedback(ev.route,
                                      CHOOSE token \in feedback_token : TRUE,
                                      TRUE, delivered),
                    IF delivered THEN Returned(<<>>)
                    ELSE Raised(<<>>, "ServiceRequestFailed")))
       ELSE Returned(<<>>)

PFSFeedbackEventHandler_handle_paymentsentsuccess(ev, delivered) ==
    LET feedback_token == route_to_feeback_token[ev.route]
    IN IF feedback_token # {}
       THEN AndThen(Returned(<<LogEffect("debug",
                                         "Received payment success event")>>),
                    post_pfs_feedback(ev.route,
                                      CHOOSE token \in feedback_token : TRUE,
                                      TRUE, delivered))
       ELSE Returned(<<>>)

\* self.wrapped.on_raiden_event(raiden, chain_state, event) is entered
WrappedCall(ev) == [op |-> "wrapped.on_raiden_event", event |-> ev]

\* the decorator's own part of on_raiden_event (lines 576-581)
PFSFeedbackEventHandler_feedback(ev, delivered) ==
    IF ev.type = "EventRouteFailed"
    THEN PFSFeedbackEventHandler_handle_routefailed(ev, delivered)
    ELSE IF ev.type = "EventPaymentSentSuccess"
    THEN PFSFeedbackEventHandler_handle_paymentsentsuccess(ev, delivered)
    ELSE Returned(<<>>)

\* variant: the wrapped handler is called in the else of the if/elif chain
PFSFeedbackEventHandler_on_raiden_event_else(ev, resolver_reveals, delivered) ==
    LET own == PFSFeedbackEventHandler_feedback(ev, delivered)
        wrapped == on_raiden_event(ev, resolver_reveals)
    IN IF ev.type \in {"EventRouteFailed", "EventPaymentSentSuccess"}
       THEN [branch |-> "feedback", handlers |-> <<>>,
             effects |-> own.effects, raised |-> own.raised]
       ELSE [wrapped EXCEPT
                !.effects = own.effects \o <<WrappedCall(ev)>> \o wrapped.effects]

\* PFSFeedbackEventHandler.on_raiden_event: an exception of the feedback part
\* leaves before the wrapped handler is called
PFSFeedbackEventHandler_on_raiden_event(ev, resolver_reveals, delivered) ==
    LET own == PFSFeedbackEventHandler_feedback(ev, delivered)
        wrapped == on_raiden_event(ev, resolver_reveals)
    IN IF own.raised # NoException
       THEN [branch |-> "feedback", handlers |-> <<>>,
             effects |-> own.effects, raised |-> own.raised]
       ELSE [wrapped EXCEPT
                !.effects = own.effects \o <<WrappedCall(ev)>> \o wrapped.effects]

\* one call of PFSFeedbackEventHandler.on_raiden_event
PFSDispatch(ev, resolver_reveals, delivered) ==
    Dispatched(ev, resolver_reveals,
               PFSFeedbackEventHandler_on_raiden_event(ev, resolver_reveals,
                                                       delivered))

\* a post is made, and can fail, for the two feedback events on a route with
\* a recorded token
FeedbackOutcomes(ev) ==
    IF /\ ev.type \in {"EventRouteFailed", "EventPaymentSentSuccess"}
       /\ route_to_feeback_token[ev.route] # {}
    THEN BOOLEAN ELSE {TRUE}

(***************************************************************************)
(* Environment of the batch-unlock handler                                 *)
(***************************************************************************)
\* an unlock transaction of `side` is mined (ours or the counterpart's): the
\* state machine resets that side's on-chain locksroot
ContractReceiveChannelBatchUnlock(side) ==
    /\ \E cs \in chain_state :
          /\ cs[side].onchain_locksroot # EMPTY_HASH
          /\ chain_state' = (chain_state \ {cs}) \cup
                 {[cs EXCEPT ![side].onchain_locksroot = EMPTY_HASH]}
    /\ UNCHANGED <<wal, wal_open, constructed, chain, statuses, payment_done,
                   route_to_feeback_token, unlocking, effects_log, trace>>

\* once both sides are unlocked the channel is removed from the chain state
ChannelCleared ==
    /\ \E cs \in chain_state :
          /\ cs.our_state.onchain_locksroot = EMPTY_HASH
          /\ cs.partner_state.onchain_locksroot = EMPTY_HASH
          /\ chain_state' = chain_state \ {cs}
    /\ UNCHANGED <<wal, wal_open, constructed, chain, statuses, payment_done,
                   route_to_feeback_token, unlocking, effects_log, trace>>

UnlockEntries ==
    {ReceiveBP(L, 0) : L \in LockSets} \cup {SendBP(L, 0) : L \in LockSets}
        \cup {SecretReg(l) : l \in LockIds}

Logs(Entries) == UNION {[1..n -> Entries] : n \in 0..MaxLog}

\* the channel-open record of the log: the addresses a restored channel
\* state carries
ChannelOpened == [our |-> OurAddress, partner |-> PartnerAddress]

\* a log whose channel-open record names other addresses than the live state
ForeignOpened == [our |-> PartnerAddress, partner |-> OtherAddress]

\* the live channel: its pending locks are those of the whole log, its
\* on-chain locksroots are whatever the settlement recorded
LiveChannel(log, our_root, partner_root) ==
    LET cs == Replay(log, ChannelOpened, Len(log))
    IN [cs EXCEPT !.our_state.onchain_locksroot = our_root,
                  !.partner_state.onchain_locksroot = partner_root]

\* the contract's view of the two participants and whether the client can
\* still query the triggering block
ChainView(our_hash, partner_hash, can_query) ==
    [our_details |-> [address |-> OurAddress, balance_hash |-> our_hash],
     partner_details |-> [address |-> PartnerAddress, balance_hash |-> partner_hash],
     can_query_state_for_block |-> can_query]

\* the path-finding service gave a feedback token for the first route only
\* (a set per route: empty = no token)
RecordedTokens ==
    [route \in Routes |-> IF route = "route-1" THEN {"token-1"} ELSE {}]

\* payments registered by the API and not yet resolved; no handler is running
InitPayments ==
    /\ statuses = PaymentKeys
    /\ payment_done = [key \in PaymentKeys |-> <<>>]
    /\ route_to_feeback_token = RecordedTokens
    /\ unlocking = {}
    /\ effects_log = <<>>
    /\ constructed = <<>>

InitUnlockWith(OpenRecords) ==
    /\ wal \in Logs(UnlockEntries)
    /\ wal_open \in OpenRecords
    /\ \E our_root \in Locksroots, partner_root \in Locksroots :
          chain_state = {LiveChannel(wal, our_root, partner_root)}
    /\ chain = ChainView(EMPTY_HASH, EMPTY_HASH, TRUE)
    /\ InitPayments
    /\ trace = <<>>

InitUnlock == InitUnlockWith({ChannelOpened})

InitUnlockForeign == InitUnlockWith({ChannelOpened, ForeignOpened})

NextUnlock ==
    \/ \E ev \in BatchUnlockEvents : Dispatch(ev, FALSE)
    \/ \E side \in {"our_state", "partner_state"} :
          ContractReceiveChannelBatchUnlock(side)
    \/ ChannelCleared

SpecUnlock == InitUnlock /\ [][NextUnlock]_vars

(***************************************************************************)
(* The batch-unlock handler with the wait of its first chain call          *)
(***************************************************************************)
\* the handler reaches its second unlock: both sides are to be unlocked and
\* the partner's side made its chain call, during which other tasks run
UnlockYields(ev) ==
    \E channel_state \in get_channelstate_by_token_network_and_partner(ev.sender) :
        /\ channel_state.our_state.onchain_locksroot # EMPTY_HASH
        /\ channel_state.partner_state.onchain_locksroot # EMPTY_HASH
        /\ LET partner == unlock_partner_side(channel_state, ev)
           IN /\ partner.raised = NoException
              /\ \E k \in 1..Len(partner.effects) :
                    partner.effects[k].op = "unlock"

\* lines 321-409: the locksroots are read and the partner's side is unlocked
UnlockBegin(ev) ==
    /\ Len(trace) < MaxDispatch
    /\ ~Halted
    /\ unlocking = {}
    /\ UnlockYields(ev)
    /\ \E channel_state \in get_channelstate_by_token_network_and_partner(ev.sender) :
          /\ unlocking' =
                {[event |-> ev, channel_state |-> channel_state,
                  live |-> chain_state,
                  effects |-> unlock_partner_side(channel_state, ev).effects]}
          /\ effects_log' =
                carried_out(effects_log, Len(trace) + 1,
                            unlock_partner_side(channel_state, ev).effects)
    /\ UNCHANGED <<chain_state, wal, wal_open, constructed, chain, statuses, payment_done,
                   route_to_feeback_token, trace>>

\* lines 411-451: the handler goes on with the locksroots it read at the start
UnlockResume ==
    /\ \E u \in unlocking :
          LET ours == unlock_our_side(u.channel_state, u.event)
              result == AndThen(Returned(u.effects), ours)
          IN /\ trace' = Append(trace, [event |-> u.event, live |-> u.live,
                                        live_resumed |-> chain_state,
                                        registered |-> statuses,
                                        resolver_reveals |-> FALSE,
                                        branch |-> "handler",
                                        handlers |-> <<"handle_contract_send_channelunlock">>,
                                        effects |-> result.effects,
                                        raised |-> result.raised])
             /\ effects_log' =
                   carried_out(effects_log, Len(trace) + 1, ours.effects)
    /\ unlocking' = {}
    /\ UNCHANGED <<chain_state, wal, wal_open, constructed, chain, statuses, payment_done,
                   route_to_feeback_token>>

NextUnlockSteps ==
    \/ \E ev \in BatchUnlockEvents : ~UnlockYields(ev) /\ Dispatch(ev, FALSE)
    \/ \E ev \in BatchUnlockEvents : UnlockBegin(ev)
    \/ UnlockResume
    \/ \E side \in {"our_state", "partner_state"} :
          ContractReceiveChannelBatchUnlock(side)
    \/ ChannelCleared

SpecUnlockSteps == InitUnlock /\ [][NextUnlockSteps]_vars

\* the batch-unlock handler over logs that may have been written for other
\* addresses than the live channel's
SpecUnlockForeign == InitUnlockForeign /\ [][NextUnlock]_vars

(***************************************************************************)
(* Settlement: the log holds balance proofs of both sides, the contract    *)
(* holds the balance hash each side submitted (or none)                    *)
(***************************************************************************)
SettleLockSets == {{}, {1}}
TransferredAmounts == {0, 1}

SettleEntries ==
    {ReceiveBP(L, t) : L \in SettleLockSets, t \in TransferredAmounts}
        \cup {SendBP(L, t) : L \in SettleLockSets, t \in TransferredAmounts}

BalanceHashes ==
    {BalanceProof(L, t).balance_hash : L \in SettleLockSets, t \in TransferredAmounts}

InitSettle ==
    /\ wal \in Logs(SettleEntries)
    /\ wal_open = ChannelOpened
    /\ chain_state = {LiveChannel(wal, EMPTY_HASH, EMPTY_HASH)}
    /\ \E our_hash \in BalanceHashes, partner_hash \in BalanceHashes,
          can_query \in BOOLEAN :
          chain = ChainView(our_hash, partner_hash, can_query)
    /\ InitPayments
    /\ trace = <<>>

NextSettle == \E ev \in SettleEvents : Dispatch(ev, FALSE)

SpecSettle == InitSettle /\ [][NextSettle]_vars

(***************************************************************************)
(* The dispatcher over every event, on a settled channel                   *)
(***************************************************************************)
\* the secret of lock 1 was registered on-chain before the balance proofs
\* were exchanged: the partner's lock 1 is ours to claim, and of our locks 1
\* and 2 the second comes back to us
DispatchLog == <<SecretReg(1), ReceiveBP({1}, 0), SendBP({1, 2}, 1)>>

\* the resolver is consulted for secret requests only
ResolverOutcomes(ev) ==
    IF ev.type = "SendSecretRequest" THEN BOOLEAN ELSE {FALSE}

Init ==
    /\ wal = DispatchLog
    /\ wal_open = ChannelOpened
    /\ \E unlocked \in BOOLEAN :
          chain_state =
              {LiveChannel(wal,
                           IF unlocked THEN EMPTY_HASH ELSE MerkleRoot({1, 2}),
                           IF unlocked THEN EMPTY_HASH ELSE MerkleRoot({1}))}
    /\ \E recorded \in BOOLEAN :
          chain = ChainView(
              IF recorded THEN BalanceProof({1, 2}, 1).balance_hash ELSE EMPTY_HASH,
              IF recorded THEN BalanceProof({1}, 0).balance_hash ELSE EMPTY_HASH,
              TRUE)
    /\ InitPayments
    /\ trace = <<>>

Next == \E ev \in Events : \E resolver_reveals \in ResolverOutcomes(ev) :
            Dispatch(ev, resolver_reveals)

Spec == Init /\ [][Next]_vars

\* the same node with the feedback decorator around the dispatcher
NextFeedback ==
    \E ev \in Events : \E resolver_reveals \in ResolverOutcomes(ev) :
        \E delivered \in FeedbackOutcomes(ev) :
            PFSDispatch(ev, resolver_reveals, delivered)

SpecFeedback == Init /\ [][NextFeedback]_vars

(***************************************************************************)
(* Vocabulary of the properties                                            *)
(***************************************************************************)
Dispatches == 1..Len(trace)
Sides == {"our_state", "partner_state"}

DispatchesOf(type) == {i \in Dispatches : trace[i].event.type = type}
UnlockDispatches == DispatchesOf("ContractSendChannelBatchUnlock")

\* the live channel state the handler of dispatch i worked on
LiveOf(i) ==
    {cs \in trace[i].live : cs.partner_state.address = trace[i].event.sender}

EffectsOf(i, op) ==
    {k \in 1..Len(trace[i].effects) : trace[i].effects[k].op = op}

\* positions of the chain-proxy unlock calls of dispatch i sent for `sender`
UnlockCallsFrom(i, sender) ==
    {k \in EffectsOf(i, "unlock") : trace[i].effects[k].sender = sender}

UnlockCalls(i, sender, receiver) ==
    {k \in UnlockCallsFrom(i, sender) : trace[i].effects[k].receiver = receiver}

\* the history record of a side's on-chain locksroot (0 = none)
RecordOf(cs, side) ==
    IF side = "partner_state"
    THEN get_state_change_with_balance_proof_by_locksroot(
             cs.partner_state.onchain_locksroot, cs.partner_state.address)
    ELSE get_event_with_balance_proof_by_locksroot(
             cs.our_state.onchain_locksroot, cs.partner_state.address)

\* C1: a side whose live on-chain locksroot is EMPTY when the batch-unlock
\* handler runs gets no chain-proxy unlock call, whatever the other side's
\* locksroot is.
C1_NoUnlockForEmptyLocksroot ==
    \A i \in UnlockDispatches : \A cs \in LiveOf(i) : \A side \in Sides :
        cs[side].onchain_locksroot = EMPTY_HASH
            => UnlockCallsFrom(i, cs[side].address) = {}

\* our side is already unlocked, the partner side is not and is unlocked now
C1_Witness ==
    \E i \in UnlockDispatches : \E cs \in LiveOf(i) :
        /\ cs.our_state.onchain_locksroot = EMPTY_HASH
        /\ cs.partner_state.onchain_locksroot # EMPTY_HASH
        /\ UnlockCallsFrom(i, cs.partner_state.address) # {}
        /\ UnlockCallsFrom(i, cs.our_state.address) = {}

\* C2: every unlock call passes the pending locks of the end state of the
\* snapshot reconstructed at the history record matching that side's on-chain
\* locksroot, not the live end state's locks nor those of a later snapshot.
C2_HistoricalLockSet ==
    \A i \in UnlockDispatches : \A cs \in LiveOf(i) : \A side \in Sides :
        \A k \in UnlockCallsFrom(i, cs[side].address) :
            LET record == RecordOf(cs, side)
            IN /\ record # 0
               /\ trace[i].effects[k].merkle_tree_locks =
                    get_batch_unlock(channel_state_until_state_change(record)[side])

\* an unlock call was made for a side whose live locks and whose locks in a
\* later snapshot both differ from the ones passed
C2_Witness ==
    \E i \in UnlockDispatches : \E cs \in LiveOf(i) : \E side \in Sides :
        \E k \in UnlockCallsFrom(i, cs[side].address) :
            /\ trace[i].effects[k].merkle_tree_locks # cs[side].locks
            /\ \E n \in (RecordOf(cs, side) + 1)..Len(wal) :
                  channel_state_until_state_change(n)[side].locks
                      # trace[i].effects[k].merkle_tree_locks

\* C3 as stated: over the whole sequence of batch-unlock intents the unlock
\* call of a given (sender, receiver) is issued at most once.
C3_AtMostOnceOverSequence ==
    \A s \in Address, r \in Address :
        Cardinality({<<i, k>> \in Dispatches \X (1..8) :
                        /\ i \in UnlockDispatches
                        /\ k \in UnlockCalls(i, s, r)}) <= 1

\* the locksroot of the side with address s was EMPTY when dispatch j ran
ObservedEmpty(j, s) ==
    \A cs \in LiveOf(j) : \A side \in Sides :
        cs[side].address = s => cs[side].onchain_locksroot = EMPTY_HASH

\* C3 (amended): one intent issues the unlock call of a given (sender,
\* receiver) at most once, and the call is issued at most once over a
\* sequence in which the live on-chain locksroot of that side was reset to
\* EMPTY before the next intent ran; the handler keeps no record of its calls.
C3_AtMostOncePerIntentAndPerReset ==
    \A s \in Address, r \in Address :
        /\ \A i \in UnlockDispatches : Cardinality(UnlockCalls(i, s, r)) <= 1
        /\ (\A i \in UnlockDispatches, j \in UnlockDispatches :
               (i < j /\ UnlockCalls(i, s, r) # {}) => ObservedEmpty(j, s))
            => Cardinality({i \in UnlockDispatches : UnlockCalls(i, s, r) # {}}) <= 1

\* the call was issued, the locksroot was reset, the next intent issued none
C3_Witness ==
    \E i \in UnlockDispatches, j \in UnlockDispatches : \E cs \in LiveOf(j) :
        /\ i < j
        /\ UnlockCalls(i, cs.partner_state.address, cs.our_state.address) # {}
        /\ cs.partner_state.onchain_locksroot = EMPTY_HASH
        /\ cs.our_state.onchain_locksroot # EMPTY_HASH
        /\ UnlockCalls(j, cs.partner_state.address, cs.our_state.address) = {}
        /\ trace[j].raised = NoException

\* the partner side of dispatch i: its record is found
PartnerRecordFound(cs) ==
    /\ cs.partner_state.onchain_locksroot # EMPTY_HASH
    /\ RecordOf(cs, "partner_state") # 0

OurRecordFound(cs) ==
    /\ cs.our_state.onchain_locksroot # EMPTY_HASH
    /\ RecordOf(cs, "our_state") # 0

\* C4: with the partner's locksroot non-empty and its record found, no unlock
\* call with sender = partner is issued when the gain from the partner's locks
\* in the snapshot is zero and the snapshot's partner address is the intent's
\* participant; otherwise exactly one such call is issued.
C4_ZeroGainSkipPartner ==
    \A i \in UnlockDispatches : \A cs \in LiveOf(i) :
        PartnerRecordFound(cs) =>
            LET restored ==
                    channel_state_until_state_change(RecordOf(cs, "partner_state"))
                calls == UnlockCallsFrom(i, cs.partner_state.address)
            IN IF /\ get_batch_unlock_gain(restored).from_partner_locks = 0
                  /\ restored.partner_state.address = trace[i].event.sender
               THEN calls = {}
               ELSE Cardinality(calls) = 1

\* the partner side is skipped for zero gain although its locks are pending
C4_Witness ==
    \E i \in UnlockDispatches : \E cs \in LiveOf(i) :
        /\ PartnerRecordFound(cs)
        /\ LET restored ==
                   channel_state_until_state_change(RecordOf(cs, "partner_state"))
           IN /\ get_batch_unlock_gain(restored).from_partner_locks = 0
              /\ restored.partner_state.address = trace[i].event.sender
              /\ restored.partner_state.locks # {}
        /\ UnlockCallsFrom(i, cs.partner_state.address) = {}
        /\ trace[i].raised = NoException

\* C5: with our locksroot non-empty and its record found, no unlock call with
\* sender = us, receiver = partner is issued when the gain from our locks in
\* the snapshot is zero and the snapshot's our address is our live address.
C5_ZeroGainSkipOur ==
    \A i \in UnlockDispatches : \A cs \in LiveOf(i) :
        (/\ OurRecordFound(cs)
         /\ LET restored ==
                    channel_state_until_state_change(RecordOf(cs, "our_state"))
            IN /\ get_batch_unlock_gain(restored).from_our_locks = 0
               /\ restored.our_state.address = cs.our_state.address)
        => UnlockCalls(i, cs.our_state.address, cs.partner_state.address) = {}

\* C6: when both live on-chain locksroots are EMPTY the handler makes no
\* unlock call, no history query and no reconstruction, logs exactly one
\* warning and returns without raising.
C6_BothSidesAlreadyUnlocked ==
    \A i \in UnlockDispatches : \A cs \in LiveOf(i) :
        (/\ cs.our_state.onchain_locksroot = EMPTY_HASH
         /\ cs.partner_state.onchain_locksroot = EMPTY_HASH)
        => /\ EffectsOf(i, "unlock") = {}
           /\ EffectsOf(i, "query") = {}
           /\ EffectsOf(i, "restore") = {}
           /\ Cardinality({k \in EffectsOf(i, "log") :
                              trace[i].effects[k].level = "warning"}) = 1
           /\ trace[i].raised = NoException

\* the handler ran on a channel whose two sides were unlocked after settlement
C6_Witness ==
    \E i \in UnlockDispatches : \E cs \in LiveOf(i) :
        /\ cs.our_state.onchain_locksroot = EMPTY_HASH
        /\ cs.partner_state.onchain_locksroot = EMPTY_HASH
        /\ cs.our_state.locks # {}
        /\ Len(trace[i].effects) = 1

(***************************************************************************)
(* Settle properties                                                       *)
(***************************************************************************)
SettleDispatches == DispatchesOf("ContractSendChannelSettle")

OurSettleRecord ==
    get_event_with_balance_proof_by_balance_hash(chain.our_details.balance_hash)

PartnerSettleRecord ==
    get_state_change_with_balance_proof_by_balance_hash(
        chain.partner_details.balance_hash, chain.partner_details.address)

QueriesOf(i, query) ==
    {k \in EffectsOf(i, "query") : trace[i].effects[k].query = query}

\* the amounts a settle call submits for each side
OurAmountsIn(call) ==
    Amounts(call.transferred_amount, call.locked_amount, call.locksroot)

PartnerAmountsIn(call) ==
    Amounts(call.partner_transferred_amount, call.partner_locked_amount,
            call.partner_locksroot)

\* the amounts of the live (latest) balance proof of a side, as the in-memory
\* channel state holds them
LiveAmounts(kind) ==
    LET latest == LatestMatch({n \in 1..Len(wal) : wal[n].kind = kind})
    IN IF latest = 0 THEN DefaultAmounts ELSE AmountsOf(wal[latest].balance_proof)

\* C7: with both on-chain balance hashes non-empty and both history records
\* present, exactly one settle call is issued; its amounts for our side are
\* those of the sent-message record matching our on-chain balance hash and
\* its amounts for the partner side those of the state-change record matching
\* the partner's, not the live values.
C7_SettleAmountFidelity ==
    \A i \in SettleDispatches :
        (/\ chain.our_details.balance_hash # EMPTY_HASH
         /\ chain.partner_details.balance_hash # EMPTY_HASH
         /\ OurSettleRecord # 0
         /\ PartnerSettleRecord # 0)
        => /\ Cardinality(EffectsOf(i, "settle")) = 1
           /\ \A k \in EffectsOf(i, "settle") :
                 /\ OurAmountsIn(trace[i].effects[k])
                        = AmountsOf(wal[OurSettleRecord].balance_proof)
                 /\ PartnerAmountsIn(trace[i].effects[k])
                        = AmountsOf(wal[PartnerSettleRecord].balance_proof)

\* a settle call was made with our recorded amounts while our live balance
\* proof holds other amounts, and the two sides' amounts differ
C7_Witness ==
    \E i \in SettleDispatches : \E k \in EffectsOf(i, "settle") :
        /\ chain.our_details.balance_hash # EMPTY_HASH
        /\ chain.partner_details.balance_hash # EMPTY_HASH
        /\ OurAmountsIn(trace[i].effects[k]) # LiveAmounts("SendBP")
        /\ OurAmountsIn(trace[i].effects[k]) # PartnerAmountsIn(trace[i].effects[k])

\* C8: for each side whose on-chain balance hash is EMPTY the history log is
\* not queried for that side and the settle call carries (0, 0, EMPTY) for it;
\* the call is issued unless the other side's record is missing.
C8_SettleDefaults ==
    \A i \in SettleDispatches :
        /\ chain.our_details.balance_hash = EMPTY_HASH
            => /\ QueriesOf(i, "event_by_balance_hash") = {}
               /\ \A k \in EffectsOf(i, "settle") :
                     OurAmountsIn(trace[i].effects[k]) = DefaultAmounts
               /\ (chain.partner_details.balance_hash = EMPTY_HASH
                     \/ PartnerSettleRecord # 0)
                    => Cardinality(EffectsOf(i, "settle")) = 1
        /\ chain.partner_details.balance_hash = EMPTY_HASH
            => /\ QueriesOf(i, "state_change_by_balance_hash") = {}
               /\ \A k \in EffectsOf(i, "settle") :
                     PartnerAmountsIn(trace[i].effects[k]) = DefaultAmounts
               /\ (chain.our_details.balance_hash = EMPTY_HASH
                     \/ OurSettleRecord # 0)
                    => Cardinality(EffectsOf(i, "settle")) = 1

\* the partner never submitted a balance proof although the log holds one of
\* its balance proofs; our side is settled from its record
C8_Witness ==
    \E i \in SettleDispatches : \E k \in EffectsOf(i, "settle") :
        /\ chain.partner_details.balance_hash = EMPTY_HASH
        /\ chain.our_details.balance_hash # EMPTY_HASH
        /\ LiveAmounts("ReceiveBP") # DefaultAmounts
        /\ PartnerAmountsIn(trace[i].effects[k]) = DefaultAmounts
        /\ OurAmountsIn(trace[i].effects[k]) # DefaultAmounts

(***************************************************************************)
(* Dispatch                                                                *)
(***************************************************************************)
\* the calls that go to a chain proxy
ChainProxyOps == {"unlock", "settle", "close", "update_transfer", "register_secret"}

ChainProxyCalls(i) ==
    {k \in 1..Len(trace[i].effects) : trace[i].effects[k].op \in ChainProxyOps}

\* C9: every dispatched event is routed to exactly one handler, or is a
\* member of the uneventful set and does nothing; none runs two handlers.
C9_DispatchCompleteness ==
    \A i \in Dispatches :
        \/ /\ trace[i].branch = "handler"
           /\ Len(trace[i].handlers) = 1
        \/ /\ trace[i].branch = "uneventful"
           /\ trace[i].event.type \in UNEVENTFUL_EVENTS
           /\ trace[i].handlers = <<>>
           /\ trace[i].effects = <<>>

\* the message events whose handler goes on to send: every one but a secret
\* request the resolver answered
SendingDispatches ==
    {i \in Dispatches :
        /\ trace[i].event.type \in MessageEventTypes
        /\ ~(trace[i].event.type = "SendSecretRequest"
                /\ trace[i].resolver_reveals)}

\* C10: a message event is signed exactly once and then sent exactly once,
\* in that order, on the event's own queue_identifier, the sent message being
\* the signed one; no call goes to a chain proxy.
C10_MessageIntents ==
    \A i \in SendingDispatches :
        /\ trace[i].raised = NoException
        /\ Cardinality(EffectsOf(i, "sign")) = 1
        /\ Cardinality(EffectsOf(i, "send_async")) = 1
        /\ \A s \in EffectsOf(i, "sign") : \A t \in EffectsOf(i, "send_async") :
              /\ s < t
              /\ trace[i].effects[s].message = message_from_sendevent(trace[i].event)
              /\ trace[i].effects[t].message = Signed(trace[i].effects[s].message)
              /\ trace[i].effects[t].queue_identifier
                    = trace[i].event.queue_identifier
        /\ ChainProxyCalls(i) = {}

C10_Witness ==
    /\ \E i \in SendingDispatches :
          /\ trace[i].event.type = "SendSecretRequest"
          /\ EffectsOf(i, "send_async") # {}
    /\ \E i \in SendingDispatches :
          /\ trace[i].event.type = "SendProcessed"
          /\ trace[i].event.queue_identifier.recipient = OtherAddress
          /\ EffectsOf(i, "send_async") # {}

(***************************************************************************)
(* Secret requests                                                         *)
(***************************************************************************)
SecretRequestDispatches == DispatchesOf("SendSecretRequest")

ResolverCalls(i) == EffectsOf(i, "reveal_secret_with_resolver")

\* C11: on a secret request the resolver is consulted once and before any
\* signing or sending; when it reveals the secret nothing is signed or sent,
\* otherwise exactly one signed SecretRequest is sent.
C11_SecretRequestShortCircuit ==
    \A i \in SecretRequestDispatches :
        /\ Cardinality(ResolverCalls(i)) = 1
        /\ \A r \in ResolverCalls(i) :
              /\ trace[i].effects[r].revealed = trace[i].resolver_reveals
              /\ \A k \in EffectsOf(i, "sign") \cup EffectsOf(i, "send_async") :
                    r < k
        /\ trace[i].resolver_reveals =>
              /\ EffectsOf(i, "sign") = {}
              /\ EffectsOf(i, "send_async") = {}
        /\ ~trace[i].resolver_reveals =>
              /\ Cardinality(EffectsOf(i, "sign")) = 1
              /\ Cardinality(EffectsOf(i, "send_async")) = 1
              /\ \A t \in EffectsOf(i, "send_async") :
                    /\ trace[i].effects[t].message
                          = Signed(message_from_sendevent(trace[i].event))
                    /\ trace[i].effects[t].message.cmd = "SecretRequest"
                    /\ trace[i].effects[t].message.signature # EMPTY_SIGNATURE

C11_Witness ==
    /\ \E i \in SecretRequestDispatches :
          trace[i].resolver_reveals /\ Len(trace[i].effects) = 1
    /\ \E i \in SecretRequestDispatches :
          ~trace[i].resolver_reveals /\ EffectsOf(i, "send_async") # {}

(***************************************************************************)
(* Close and update                                                        *)
(***************************************************************************)
CloseDispatches == DispatchesOf("ContractSendChannelClose")
UpdateDispatches == DispatchesOf("ContractSendChannelUpdateTransfer")

\* the (nonce, balance_hash, additional_hash, signature) of a close call
CloseArguments(call) ==
    <<call.nonce, call.balance_hash, call.additional_hash, call.signature>>

\* C12: a close event makes exactly one close call, at the event's trigger
\* block, with the (nonce, balance_hash, message_hash, signature) of the
\* event's balance proof, or with (0, EMPTY_BALANCE_HASH, EMPTY_MESSAGE_HASH,
\* EMPTY_SIGNATURE) when the event carries none.
C12_Close ==
    \A i \in CloseDispatches :
        /\ trace[i].raised = NoException
        /\ Cardinality(EffectsOf(i, "close")) = 1
        /\ ChainProxyCalls(i) = EffectsOf(i, "close")
        /\ \A k \in EffectsOf(i, "close") :
              /\ trace[i].effects[k].block_identifier
                    = trace[i].event.triggered_by_block_hash
              /\ \A bp \in trace[i].event.balance_proof :
                    CloseArguments(trace[i].effects[k])
                        = <<bp.nonce, bp.balance_hash, bp.message_hash,
                            bp.signature>>
              /\ trace[i].event.balance_proof = {} =>
                    CloseArguments(trace[i].effects[k])
                        = <<0, EMPTY_BALANCE_HASH, EMPTY_MESSAGE_HASH,
                            EMPTY_SIGNATURE>>

C12_Witness ==
    /\ \E i \in CloseDispatches :
          /\ trace[i].event.balance_proof = {}
          /\ EffectsOf(i, "close") # {}
    /\ \E i \in CloseDispatches :
          /\ trace[i].event.balance_proof = {PartnerBalanceProof}
          /\ \E k \in EffectsOf(i, "close") :
                trace[i].effects[k].signature = PartnerBalanceProof.signature

\* C13: an update event without a balance proof signs nothing and calls no
\* chain proxy; with a balance proof it makes exactly one update_transfer
\* call, whose partner_signature is the balance proof's signature and whose
\* signature is ours over the packing of (nonce, balance_hash,
\* additional_hash, canonical_identifier, partner_signature) of that proof.
C13_Update ==
    \A i \in UpdateDispatches :
        /\ trace[i].event.balance_proof = {} =>
              /\ EffectsOf(i, "signer.sign") = {}
              /\ EffectsOf(i, "sign") = {}
              /\ ChainProxyCalls(i) = {}
        /\ \A bp \in trace[i].event.balance_proof :
              /\ Cardinality(EffectsOf(i, "update_transfer")) = 1
              /\ ChainProxyCalls(i) = EffectsOf(i, "update_transfer")
              /\ \A k \in EffectsOf(i, "update_transfer") :
                    /\ trace[i].effects[k].partner_signature = bp.signature
                    /\ trace[i].effects[k].signature
                          = Signature(OurAddress,
                                <<bp.nonce, bp.balance_hash, bp.message_hash,
                                  bp.canonical_identifier, bp.signature>>)
                    /\ \E s \in EffectsOf(i, "signer.sign") :
                          /\ s < k
                          /\ trace[i].effects[s].data
                                = trace[i].effects[k].signature.data

C13_Witness ==
    /\ \E i \in UpdateDispatches :
          trace[i].event.balance_proof = {} /\ trace[i].effects = <<>>
    /\ \E i \in UpdateDispatches :
          /\ trace[i].event.balance_proof = {PartnerBalanceProof}
          /\ \E k \in EffectsOf(i, "update_transfer") :
                trace[i].effects[k].signature.signer = OurAddress

(***************************************************************************)
(* Fatal inconsistencies                                                   *)
(***************************************************************************)
UnrecoverableError == "RaidenUnrecoverableError"

OurSettleRecordMissing ==
    chain.our_details.balance_hash # EMPTY_HASH /\ OurSettleRecord = 0

PartnerSettleRecordMissing ==
    chain.partner_details.balance_hash # EMPTY_HASH /\ PartnerSettleRecord = 0

\* C14: when a side's on-chain balance hash is non-empty and the log holds no
\* record matching it, the settle handler raises RaidenUnrecoverableError and
\* makes no settle call.
C14_SettleFatalOnMissingRecord ==
    \A i \in SettleDispatches :
        (OurSettleRecordMissing \/ PartnerSettleRecordMissing)
        => /\ trace[i].raised = UnrecoverableError
           /\ EffectsOf(i, "settle") = {}

\* our record was found and the partner's is missing
C14_Witness ==
    \E i \in SettleDispatches :
        /\ chain.our_details.balance_hash # EMPTY_HASH
        /\ OurSettleRecord # 0
        /\ PartnerSettleRecordMissing
        /\ QueriesOf(i, "state_change_by_balance_hash") # {}
        /\ trace[i].raised = UnrecoverableError

\* the storage queries and restores of dispatch i
HistoryLookups(i) == EffectsOf(i, "query") \cup EffectsOf(i, "restore")

\* the record of a side's non-empty on-chain locksroot is missing
RecordMissing(cs, side) ==
    /\ cs[side].onchain_locksroot # EMPTY_HASH
    /\ RecordOf(cs, side) = 0

\* C15: a batch unlock for which no live channel state exists raises
\* RaidenUnrecoverableError before any history lookup or unlock call; one for
\* which a side's on-chain locksroot is non-empty and has no matching record
\* raises RaidenUnrecoverableError and makes no unlock call for that side.
C15_BatchUnlockFatal ==
    \A i \in UnlockDispatches :
        /\ LiveOf(i) = {} =>
              /\ trace[i].raised = UnrecoverableError
              /\ HistoryLookups(i) = {}
              /\ EffectsOf(i, "unlock") = {}
        /\ \A cs \in LiveOf(i) : \A side \in Sides :
              RecordMissing(cs, side) =>
                  /\ trace[i].raised = UnrecoverableError
                  /\ UnlockCallsFrom(i, cs[side].address) = {}

\* the partner's side was unlocked and then our record turned out missing
C15_Witness ==
    \E i \in UnlockDispatches : \E cs \in LiveOf(i) :
        /\ RecordMissing(cs, "our_state")
        /\ UnlockCallsFrom(i, cs.partner_state.address) # {}
        /\ trace[i].raised = UnrecoverableError

(***************************************************************************)
(* Unknown events                                                          *)
(***************************************************************************)
\* the event types with a branch of their own in on_raiden_event
HandledEventTypes ==
    MessageEventTypes \cup
        {"EventPaymentSentSuccess", "EventPaymentSentFailed", "EventUnlockFailed",
         "ContractSendSecretReveal", "ContractSendChannelClose",
         "ContractSendChannelUpdateTransfer", "ContractSendChannelBatchUnlock",
         "ContractSendChannelSettle"}

UnknownDispatches ==
    {i \in Dispatches :
        trace[i].event.type \notin HandledEventTypes \cup UNEVENTFUL_EVENTS}

\* C16: an event that is neither handled nor uneventful produces exactly one
\* error log and nothing else, and returns normally: the dispatcher accepts
\* the next event.
C16_UnknownIntent ==
    /\ \A i \in UnknownDispatches :
          /\ trace[i].raised = NoException
          /\ trace[i].handlers = <<>>
          /\ Len(trace[i].effects) = 1
          /\ trace[i].effects[1] = LogEffect("error", "Unknown event")
    /\ (/\ Len(trace) \in UnknownDispatches
        /\ Len(trace) < MaxDispatch)
       => ENABLED Next

\* an unknown event was dispatched and the event after it was handled
C16_Witness ==
    \E i \in UnknownDispatches :
        /\ i + 1 \in Dispatches
        /\ trace[i + 1].branch = "handler"
        /\ EffectsOf(i + 1, "send_async") # {}

(***************************************************************************)
(* Feedback decorator                                                      *)
(***************************************************************************)
\* the calls of the wrapped dispatcher made during dispatch i
ForwardCalls(i) == EffectsOf(i, "wrapped.on_raiden_event")

FeedbackPosts(i) == EffectsOf(i, "post_pfs_feedback")

\* everything the feedback part of the decorator did during dispatch i
FeedbackEffects(i) ==
    FeedbackPosts(i) \cup
        {k \in EffectsOf(i, "log") :
            trace[i].effects[k].level \in {"debug", "warning"}
            /\ trace[i].effects[k].message
                  \in {"Received event for failed route",
                       "Received payment success event",
                       "Could not send feedback to PFS"}}

\* C17: the decorator hands every event to the wrapped dispatcher exactly
\* once, after its own feedback part, with or without a recorded token and
\* with or without a post.
C17_FeedbackForwarding ==
    \A i \in Dispatches :
        /\ Cardinality(ForwardCalls(i)) = 1
        /\ trace[i].branch # "feedback"
        /\ \A f \in ForwardCalls(i) :
              /\ trace[i].effects[f].event = trace[i].event
              /\ \A k \in FeedbackEffects(i) : k < f

\* one event was forwarded after a post, one without a token for its route
C17_Witness ==
    /\ \E i \in DispatchesOf("EventPaymentSentSuccess") :
          /\ FeedbackPosts(i) # {}
          /\ \E f \in ForwardCalls(i) : \A k \in FeedbackPosts(i) : k < f
          /\ EffectsOf(i, "payment_done.set") # {}
    /\ \E i \in DispatchesOf("EventRouteFailed") :
          /\ route_to_feeback_token[trace[i].event.route] = {}
          /\ FeedbackPosts(i) = {}
          /\ ForwardCalls(i) # {}

\* the posts of dispatch i that the path-finding service did not get
FailedPosts(i) ==
    {k \in FeedbackPosts(i) : ~trace[i].effects[k].delivered}

ContractEventTypes ==
    {"ContractSendSecretReveal", "ContractSendChannelClose",
     "ContractSendChannelUpdateTransfer", "ContractSendChannelBatchUnlock",
     "ContractSendChannelSettle"}

ContractDispatches ==
    {i \in Dispatches : trace[i].event.type \in ContractEventTypes}

\* the chain-proxy operation of each contract event
ChainProxyOpOf(type) ==
    CASE type = "ContractSendSecretReveal" -> "register_secret"
      [] type = "ContractSendChannelClose" -> "close"
      [] type = "ContractSendChannelUpdateTransfer" -> "update_transfer"
      [] type = "ContractSendChannelBatchUnlock" -> "unlock"
      [] type = "ContractSendChannelSettle" -> "settle"

\* C18: a contract event results in at most one state-changing call against
\* the chain proxy.
C18_AtMostOneChainCall ==
    \A i \in ContractDispatches : Cardinality(ChainProxyCalls(i)) <= 1

\* C18 (amended): a contract event makes chain-proxy calls of its own
\* operation only; a batch unlock makes at most one unlock call for each side
\* of the channel, every other contract event at most one call.
C18_AtMostOneChainCallPerSide ==
    \A i \in ContractDispatches :
        /\ ChainProxyCalls(i) = EffectsOf(i, ChainProxyOpOf(trace[i].event.type))
        /\ trace[i].event.type # "ContractSendChannelBatchUnlock" =>
              Cardinality(ChainProxyCalls(i)) <= 1
        /\ trace[i].event.type = "ContractSendChannelBatchUnlock" =>
              /\ \A s \in Address : Cardinality(UnlockCallsFrom(i, s)) <= 1
              /\ UnlockCallsFrom(i, OtherAddress) = {}

\* a batch unlock made one call for each side and a close made its one call
C18_Witness ==
    /\ \E i \in UnlockDispatches :
          /\ UnlockCallsFrom(i, OurAddress) # {}
          /\ UnlockCallsFrom(i, PartnerAddress) # {}
    /\ \E i \in DispatchesOf("ContractSendChannelClose") :
          Cardinality(ChainProxyCalls(i)) = 1

(***************************************************************************)
(* Races with the counterpart's unlock                                     *)
(***************************************************************************)
\* the channel states that were live when call k of dispatch i was made: the
\* partner's side is unlocked right after the locksroots are read, our side
\* after the partner's side
LiveAtCall(i, k) ==
    LET at == IF /\ trace[i].effects[k].sender = OurAddress
                 /\ UnlockCallsFrom(i, PartnerAddress) # {}
              THEN trace[i].live_resumed
              ELSE trace[i].live
    IN {cs \in at : cs.partner_state.address = trace[i].event.sender}

\* C20: every unlock call is made while the on-chain locksroot of its side is
\* non-empty; a side whose locksroot the counterpart's unlock reset before
\* the call, also between the two calls of one event, gets no call.
C20_LocksrootCheckedBeforeEachCall ==
    \A i \in UnlockDispatches : \A k \in EffectsOf(i, "unlock") :
        /\ LiveAtCall(i, k) # {}
        /\ \A cs \in LiveAtCall(i, k) : \A side \in Sides :
              cs[side].address = trace[i].effects[k].sender
                  => cs[side].onchain_locksroot # EMPTY_HASH

(***************************************************************************)
(* Settle block                                                            *)
(***************************************************************************)
\* the block dispatch i has to query and settle at
SettleBlockOf(i) ==
    IF chain.can_query_state_for_block
    THEN trace[i].event.triggered_by_block_hash
    ELSE blockhash_from_blocknumber("latest")

\* C21: detail_participants is called exactly once and before settle; both
\* are called at the event's trigger block when the client can query it, and
\* otherwise at the block blockhash_from_blocknumber("latest") returned.
C21_SettleBlockFallback ==
    \A i \in SettleDispatches :
        /\ Cardinality(EffectsOf(i, "detail_participants")) = 1
        /\ \A d \in EffectsOf(i, "detail_participants") :
              /\ trace[i].effects[d].block_identifier = SettleBlockOf(i)
              /\ \A k \in EffectsOf(i, "settle") :
                    /\ d < k
                    /\ trace[i].effects[k].block_identifier = SettleBlockOf(i)
              /\ chain.can_query_state_for_block =>
                    EffectsOf(i, "blockhash_from_blocknumber") = {}
              /\ ~chain.can_query_state_for_block =>
                    \E b \in EffectsOf(i, "blockhash_from_blocknumber") :
                        /\ b < d
                        /\ trace[i].effects[b].block_identifier = "latest"

\* the trigger block was pruned and the channel was settled at the latest
C21_Witness ==
    \E i \in SettleDispatches : \E k \in EffectsOf(i, "settle") :
        /\ ~chain.can_query_state_for_block
        /\ trace[i].effects[k].block_identifier
              # trace[i].event.triggered_by_block_hash
        /\ trace[i].effects[k].block_identifier = "h-latest"

(***************************************************************************)
(* Direction of the unlock calls                                           *)
(***************************************************************************)
\* position of the our-side lookup of dispatch i (0 = our side did not run)
OurSideLookup(i) == LatestMatch(QueriesOf(i, "event_by_locksroot"))

\* the unlock calls made by the partner-side block and by the our-side block
PartnerSideCalls(i) ==
    {k \in EffectsOf(i, "unlock") : OurSideLookup(i) = 0 \/ k < OurSideLookup(i)}

OurSideCalls(i) == EffectsOf(i, "unlock") \ PartnerSideCalls(i)

\* the end state of `side` in the snapshot at that side's history record
RestoredEndState(cs, side) ==
    channel_state_until_state_change(RecordOf(cs, side))[side]

\* C22: a partner-side unlock call has sender = live partner address and
\* receiver = live our address, an our-side call the reverse; each passes the
\* locks of the reconstructed end state of its sender's side.
C22_UnlockDirection ==
    \A i \in UnlockDispatches : \A cs \in LiveOf(i) :
        /\ \A k \in PartnerSideCalls(i) :
              /\ trace[i].effects[k].sender = cs.partner_state.address
              /\ trace[i].effects[k].receiver = cs.our_state.address
              /\ RecordOf(cs, "partner_state") # 0
              /\ trace[i].effects[k].merkle_tree_locks
                    = get_batch_unlock(RestoredEndState(cs, "partner_state"))
        /\ \A k \in OurSideCalls(i) :
              /\ trace[i].effects[k].sender = cs.our_state.address
              /\ trace[i].effects[k].receiver = cs.partner_state.address
              /\ RecordOf(cs, "our_state") # 0
              /\ trace[i].effects[k].merkle_tree_locks
                    = get_batch_unlock(RestoredEndState(cs, "our_state"))

\* both sides were unlocked, each with locks the other side's snapshot end
\* states do not hold
C22_Witness ==
    \E i \in UnlockDispatches : \E cs \in LiveOf(i) :
        \E p \in PartnerSideCalls(i) : \E o \in OurSideCalls(i) :
            /\ trace[i].effects[p].merkle_tree_locks
                  # trace[i].effects[o].merkle_tree_locks
            /\ trace[i].effects[p].merkle_tree_locks
                  # channel_state_until_state_change(
                        RecordOf(cs, "partner_state")).our_state.locks
            /\ trace[i].effects[o].merkle_tree_locks
                  # channel_state_until_state_change(
                        RecordOf(cs, "our_state")).partner_state.locks

(***************************************************************************)
(* Order of the effects                                                    *)
(***************************************************************************)
\* the effects that leave the node
ExternalOps == {"sign", "send_async"} \cup ChainProxyOps

ExternalLog ==
    {a \in 1..Len(effects_log) : effects_log[a].effect.op \in ExternalOps}

\* the positions of the send_async calls for one queue
SendsTo(queue_identifier) ==
    {a \in ExternalLog :
        /\ effects_log[a].effect.op = "send_async"
        /\ effects_log[a].effect.queue_identifier = queue_identifier}

\* C23: the external effects of an event all happen before any effect of the
\* event dispatched after it, and the send_async calls of a queue follow the
\* order of the message events that caused them.
C23_InOrderProcessing ==
    /\ \A a \in ExternalLog : \A b \in ExternalLog :
          a < b => effects_log[a].intent <= effects_log[b].intent
    /\ \A i \in Dispatches : \A k \in 1..Len(trace[i].effects) :
          trace[i].effects[k].op \in ExternalOps =>
              \E a \in ExternalLog :
                  /\ effects_log[a].intent = i
                  /\ effects_log[a].effect.op = trace[i].effects[k].op
                  /\ effects_log[a].effect = trace[i].effects[k]
    /\ \A q \in QueueIdentifiers : \A a \in SendsTo(q) :
          /\ effects_log[a].intent \in SendingDispatches
          /\ trace[effects_log[a].intent].event.queue_identifier = q
          /\ effects_log[a].effect.message
                = Signed(message_from_sendevent(trace[effects_log[a].intent].event))
          /\ \A b \in SendsTo(q) :
                a < b => effects_log[a].intent < effects_log[b].intent

\* two different messages were sent on one queue, in the order of their events
C23_Witness ==
    \E q \in QueueIdentifiers : \E a \in SendsTo(q) : \E b \in SendsTo(q) :
        /\ a < b
        /\ effects_log[a].effect.message.cmd = "LockedTransfer"
        /\ effects_log[b].effect.message.cmd = "Unlock"
        /\ trace[1].event.type = "SendLockedTransfer"
        /\ trace[2].event.type = "SendBalanceProof"


(***************************************************************************)
(* Warning for a side that was already unlocked                            *)
(***************************************************************************)

\* positions of the warnings logged by dispatch i
WarningsOf(i) ==
    {k \in EffectsOf(i, "log") : trace[i].effects[k].level = "warning"}

OtherSide(side) == IF side = "our_state" THEN "partner_state" ELSE "our_state"

\* C24: whenever the batch-unlock handler skips a side because that side's
\* on-chain locksroot is EMPTY, a warning is logged and no error is raised,
\* also when only one of the two sides is EMPTY and the other one is still
\* processed (the other side's record being present).
C24_PerSideWarning ==
    \A i \in UnlockDispatches : \A cs \in LiveOf(i) : \A side \in Sides :
        (/\ cs[side].onchain_locksroot = EMPTY_HASH
         /\ ~RecordMissing(cs, OtherSide(side)))
        => /\ WarningsOf(i) # {}
           /\ trace[i].raised = NoException


(***************************************************************************)
(* Payment status resolved at most once                                    *)
(***************************************************************************)

PaymentEventTypes == {"EventPaymentSentSuccess", "EventPaymentSentFailed"}

PaymentDispatches == {i \in Dispatches : trace[i].event.type \in PaymentEventTypes}

KeyOf(i) == <<trace[i].event.target, trace[i].event.identifier>>

\* the registry as dispatch i left it
RegisteredAfter(i) ==
    IF i < Len(trace) THEN trace[i + 1].registered ELSE statuses

\* C25: over any sequence of EventPaymentSentSuccess / EventPaymentSentFailed
\* events the payment_done of a registered (target, identifier) entry is set
\* at most once; the first such event removes the entry from the registry,
\* and a later EventPaymentSentFailed for that key raises nothing, sets
\* nothing and changes no entry.
C25_PaymentResolvedOnce ==
    /\ \A key \in PaymentKeys :
          /\ Len(payment_done[key]) <= 1
          /\ Len(payment_done[key]) = 1 => key \notin statuses
    /\ \A i \in PaymentDispatches :
          /\ KeyOf(i) \in trace[i].registered =>
                /\ RegisteredAfter(i) = trace[i].registered \ {KeyOf(i)}
                /\ ResultsSet(trace[i].effects, KeyOf(i)) = <<trace[i].event.type>>
          /\ (/\ trace[i].event.type = "EventPaymentSentFailed"
              /\ KeyOf(i) \notin trace[i].registered) =>
                /\ trace[i].raised = NoException
                /\ trace[i].effects = <<>>
                /\ RegisteredAfter(i) = trace[i].registered

\* a success resolved the payment and a later failure of the same payment
\* found no entry
C25_Witness ==
    /\ Len(trace) = 2
    /\ trace[1].event.type = "EventPaymentSentSuccess"
    /\ trace[2].event.type = "EventPaymentSentFailed"
    /\ KeyOf(1) = KeyOf(2)
    /\ KeyOf(1) \in trace[1].registered
    /\ payment_done[KeyOf(1)] = <<"EventPaymentSentSuccess">>
    /\ KeyOf(1) \notin statuses


(***************************************************************************)
(* Partner side first, no rollback                                         *)
(***************************************************************************)

\* the partner-side lookup of dispatch i (0 = none)
PartnerSideLookup(i) == LatestMatch(QueriesOf(i, "state_change_by_locksroot"))

\* the steps the partner-side block of dispatch i took: its lookup, the
\* reconstruction at the record found, its unlock call
PartnerSideSteps(i, cs) ==
    QueriesOf(i, "state_change_by_locksroot")
    \cup {k \in EffectsOf(i, "restore") :
            trace[i].effects[k].state_change_identifier
                = RecordOf(cs, "partner_state")}
    \cup UnlockCallsFrom(i, cs.partner_state.address)

\* C26: within one batch-unlock intent the partner-side lookup, reconstruction
\* and unlock call all come before the our-side lookup; at most two unlock
\* calls are issued, at most one per side and the partner's first; and when
\* our record is missing, RaidenUnrecoverableError is raised with the
\* partner-side unlock call, if one was due, already issued and left in place.
C26_PartnerSideFirst ==
    \A i \in UnlockDispatches : \A cs \in LiveOf(i) :
        /\ OurSideLookup(i) # 0 =>
              /\ \A k \in PartnerSideSteps(i, cs) : k < OurSideLookup(i)
              /\ \A k \in UnlockCallsFrom(i, cs.our_state.address) :
                    OurSideLookup(i) < k
        /\ Cardinality(UnlockCallsFrom(i, cs.partner_state.address)) <= 1
        /\ Cardinality(UnlockCallsFrom(i, cs.our_state.address)) <= 1
        /\ EffectsOf(i, "unlock") =
              UnlockCallsFrom(i, cs.partner_state.address)
              \cup UnlockCallsFrom(i, cs.our_state.address)
        /\ (/\ RecordMissing(cs, "our_state")
            /\ PartnerRecordFound(cs)
            /\ get_batch_unlock_gain(channel_state_until_state_change(
                   RecordOf(cs, "partner_state"))).from_partner_locks > 0) =>
              /\ trace[i].raised = UnrecoverableError
              /\ OurSideLookup(i) = Len(trace[i].effects)
              /\ UnlockCallsFrom(i, cs.partner_state.address) # {}
              /\ \E n \in 1..Len(effects_log) :
                    /\ effects_log[n].intent = i
                    /\ effects_log[n].effect.op = "unlock"

\* both sides were processed in one intent: lookup, reconstruction and call
\* of the partner's side, then the same for ours
C26_Witness ==
    \E i \in UnlockDispatches : \E cs \in LiveOf(i) :
        /\ PartnerSideLookup(i) = 1
        /\ UnlockCallsFrom(i, cs.partner_state.address) = {3}
        /\ OurSideLookup(i) = 4
        /\ UnlockCallsFrom(i, cs.our_state.address) = {6}
        /\ trace[i].raised = NoException


(***************************************************************************)
(* The unlock helper on its own                                            *)
(***************************************************************************)
\* the end states a reconstruction can hand to the helper: those of the
\* snapshots at the positions of the log, position 0 being the opened channel
RestoredEndStates ==
    {channel_state_until_state_change(n)[side] :
        n \in 0..Len(wal), side \in {"our_state", "partner_state"}}

UnlockHelperCalls ==
    {[type |-> "unlock", end_state |-> end_state, sender |-> end_state.address,
      receiver |-> receiver, triggered_by_block_hash |-> block] :
        end_state \in RestoredEndStates,
        receiver \in {OurAddress, PartnerAddress}, block \in Blocks}

\* one call unlock(payment_channel, end_state, sender, receiver, block)
UnlockHelper(call) ==
    /\ call.receiver # call.sender
    /\ Dispatched(call, FALSE,
                  Handled("unlock", unlock(call.end_state, call.sender,
                                           call.receiver,
                                           call.triggered_by_block_hash)))

\* the channel was settled with the locksroots of the latest balance proofs
InitUnlockHelper ==
    /\ wal \in Logs(UnlockEntries)
    /\ wal_open = ChannelOpened
    /\ LET cs == Replay(wal, ChannelOpened, Len(wal))
       IN chain_state = {LiveChannel(wal, MerkleRoot(cs.our_state.locks),
                                     MerkleRoot(cs.partner_state.locks))}
    /\ chain = ChainView(EMPTY_HASH, EMPTY_HASH, TRUE)
    /\ InitPayments
    /\ trace = <<>>

NextUnlockHelper ==
    \/ \E ev \in BatchUnlockEvents : Dispatch(ev, FALSE)
    \/ \E call \in UnlockHelperCalls : UnlockHelper(call)

SpecUnlockHelper == InitUnlockHelper /\ [][NextUnlockHelper]_vars

\* the direct calls of the helper
UnlockHelperDispatches == DispatchesOf("unlock")

\* C27: every chain-proxy unlock call, whether issued by the batch-unlock
\* handler or by the helper called directly, carries a non-empty lock set; a
\* helper call whose end state yields no batch-unlock locks raises
\* AssertionError and makes no chain-proxy unlock call.
C27_NonEmptyLockSet ==
    /\ \A i \in Dispatches : \A k \in EffectsOf(i, "unlock") :
          trace[i].effects[k].merkle_tree_locks # {}
    /\ \A i \in UnlockHelperDispatches :
          IF get_batch_unlock(trace[i].event.end_state) = {}
          THEN /\ trace[i].raised = "AssertionError"
               /\ EffectsOf(i, "unlock") = {}
          ELSE /\ trace[i].raised = NoException
               /\ Cardinality(EffectsOf(i, "unlock")) = 1

\* the handler made an unlock call with the locks of a snapshot, and the
\* helper, given an end state without locks, failed its assertion
C27_Witness ==
    /\ Len(trace) = 2
    /\ trace[1].event.type = "ContractSendChannelBatchUnlock"
    /\ EffectsOf(1, "unlock") # {}
    /\ trace[2].event.type = "unlock"
    /\ get_batch_unlock(trace[2].event.end_state) = {}
    /\ trace[2].raised = "AssertionError"
    /\ EffectsOf(2, "unlock") = {}


(***************************************************************************)
(* Construction of the events that carry a secret                          *)
(***************************************************************************)
EMPTY_SECRETHASH == 0

Secrets == {1, 2}

\* hashlib.sha256(data).digest(), taken to be free of collisions and never
\* the empty hash
sha256(data) == 17 + (31 * data)

\* the secrethash arguments a caller may pass: none (the empty set), the empty
\* hash, the hash of a secret, something else
SecrethashArguments ==
    {{}} \cup {{h} : h \in {EMPTY_SECRETHASH, 5} \cup {sha256(s) : s \in Secrets}}

SecretEventTypes == {"SendSecretReveal", "SendBalanceProof"}

ConstructorArguments ==
    [type : SecretEventTypes, recipient : {PartnerAddress},
     channel_identifier : {1}, message_identifier : {1},
     secret : Secrets, secrethash : SecrethashArguments]

\* the generated __init__ of the dataclasses: the fields take the arguments,
\* secrethash its default when none was passed; queue_identifier is no argument
dataclass_init(args) ==
    [type |-> args.type, recipient |-> args.recipient,
     channel_identifier |-> args.channel_identifier,
     message_identifier |-> args.message_identifier,
     queue_identifier |-> [recipient |-> "unset", channel_identifier |-> 0],
     secret |-> args.secret,
     secrethash |-> IF args.secrethash = {} THEN EMPTY_SECRETHASH
                    ELSE CHOOSE h \in args.secrethash : TRUE]

\* SendMessageEvent.__post_init__
SendMessageEvent_post_init(self) ==
    [self EXCEPT !.queue_identifier =
        [recipient |-> self.recipient,
         channel_identifier |-> self.channel_identifier]]

\* SendSecretReveal.__post_init__ (lines 96-98)
SendSecretReveal_post_init(self) ==
    [SendMessageEvent_post_init(self) EXCEPT !.secrethash = sha256(self.secret)]

\* variant: a secrethash that was passed is kept
SendBalanceProof_post_init_keeps_given(self) ==
    [SendMessageEvent_post_init(self) EXCEPT
        !.secrethash = IF self.secrethash = EMPTY_SECRETHASH
                       THEN sha256(self.secret) ELSE self.secrethash]

\* SendBalanceProof.__post_init__ (lines 126-128)
SendBalanceProof_post_init(self) ==
    [SendMessageEvent_post_init(self) EXCEPT !.secrethash = sha256(self.secret)]

\* SendSecretReveal(...) / SendBalanceProof(...)
New(args) ==
    IF args.type = "SendSecretReveal"
    THEN SendSecretReveal_post_init(dataclass_init(args))
    ELSE SendBalanceProof_post_init(dataclass_init(args))

\* the state machine builds an event
Construct(args) ==
    /\ Len(constructed) < MaxDispatch
    /\ constructed' = Append(constructed, [given |-> args, event |-> New(args)])
    /\ UNCHANGED <<chain_state, wal, wal_open, chain, statuses, payment_done,
                   route_to_feeback_token, unlocking, effects_log, trace>>

NextEvents ==
    \/ \E args \in ConstructorArguments : Construct(args)
    \/ \E k \in 1..Len(constructed) : Dispatch(constructed[k].event, FALSE)

SpecEvents == Init /\ [][NextEvents]_vars

\* the secrethash argument of the k-th construction, as the field was
\* initialised with it
GivenSecrethash(k) == dataclass_init(constructed[k].given).secrethash

\* C28: every constructed SendSecretReveal and SendBalanceProof event, and so
\* every such event that is dispatched, has secrethash = sha256(secret),
\* whatever secrethash was passed to the constructor or left to the default.
C28_SecrethashConsistency ==
    /\ \A k \in 1..Len(constructed) :
          /\ constructed[k].event.type = constructed[k].given.type
          /\ constructed[k].event.secret = constructed[k].given.secret
          /\ constructed[k].event.secrethash = sha256(constructed[k].given.secret)
    /\ \A i \in Dispatches :
          trace[i].event.type \in SecretEventTypes =>
              trace[i].event.secrethash = sha256(trace[i].event.secret)

\* a SendSecretReveal built with the hash of another secret and a
\* SendBalanceProof built with the default, the first of them dispatched
C28_Witness ==
    /\ Len(constructed) = 2
    /\ constructed[1].given.type = "SendSecretReveal"
    /\ constructed[1].given.secrethash = {sha256(2)}
    /\ constructed[1].given.secret = 1
    /\ constructed[1].event.secrethash = sha256(1)
    /\ constructed[2].given.type = "SendBalanceProof"
    /\ constructed[2].given.secrethash = {}
    /\ constructed[2].event.secrethash = sha256(constructed[2].given.secret)
    /\ \E i \in Dispatches : trace[i].event = constructed[1].event

====
